---- MODULE Spec2Model ----
(***************************************************************************)
(* Model of the reactive package of denkhaus/thunder                       *)
(* (src/reactive/rerunner.go): the keyed lock table (locker), the          *)
(* computation cache (Cache) and the Rerunner.                             *)
(*                                                                         *)
(* Three specifications share one set of variables:                        *)
(*   SpecLocker   - goroutines calling locker.Lock / locker.Unlock         *)
(*   SpecCache    - goroutines calling Cache(ctx, key, g) inside one       *)
(*                  top-level run (uses the locker's steps)                *)
(*   SpecRerunner - one Rerunner: run(), Stop(), AddDependency,            *)
(*                  Resource.Invalidate and the passing of time            *)
(* Durations are counted in seconds.                                       *)
(***************************************************************************)
EXTENDS Integers, FiniteSets, Sequences, TLC

\* ------------------------------------------------------------------ bounds
NProcs == 3
NKeys == 2
NCallers == 2
MaxCalls == 2
MaxRuns == 3
NStops == 2
TickStep == 20
TimeCap == 80
MaxWrap == 3
NFieldNames == 2
MaxDepth == 2

\* time.Minute (rerunner.go:268), in seconds
Minute == 60
\* the values of minRerunInterval the Rerunner is constructed with
MinIntervals == {0, 20, 70}

Min(a, b) == IF a < b THEN a ELSE b
Max(a, b) == IF a > b THEN a ELSE b

Procs == 1..NProcs
Keys == 1..NKeys
\* lock objects a program run can have alive at once: one per table entry and
\* one per goroutine-local pointer
LockIds == 1..(NKeys + NProcs)

\* SpecCache: the goroutines that call Cache, the computation each of them runs
\* in (computation 1 or 2; its ctx carries that one, or none: 0) and the
\* computations Cache creates
Callers == 1..Min(NCallers, NProcs)
CtxOf(g) == 1 + (g % 2)
ChildIds == 3..(2 + MaxCalls)

VARIABLES
    \* ---- locker (rerunner.go:17-60)
    lmu,        \* locker.mu: 0 when free, else the goroutine holding it
    lm,         \* locker.m: key -> lock object id, 0 when the key has no entry
    lref,       \* lock.ref of each lock object
    lkmu,       \* lock.mu of each lock object: 0 when free, else the holder
    pc,         \* position of each goroutine
    gkey,       \* the key argument of the goroutine's current call (0: no call)
    gm          \* the goroutine's local variable m (a lock object id, 0 = none)

RunIds == 1..MaxRuns
\* one Resource: Resources act on a computation independently of one another,
\* each through its own addOut and invalidate
Resources == {1}
Stoppers == 1..NStops

VARIABLES
    \* ---- cache and Cache (rerunner.go:62-100, 146-193)
    computations,   \* cache.computations: key -> computation id, 0 when absent
    comp,           \* the computation records run() has created: key, value, state
                    \* ("unused", "running", "ok", "failed") and the number of
                    \* `go c.node.release()` issued for its node
    cout,           \* node.out of each created computation's node
    execCount,      \* per key, how many times the inner function g has been entered
    nextChild,      \* the next computation id run() allocates
    calls,          \* the Cache calls made so far
    gctx,           \* the computation in the caller's ctx (0: none)
    gchild,         \* the caller's local variable child
    gret,           \* what the caller's last Cache call returned
    cinvalidated    \* the created computations whose node is invalidated

VARIABLES
    \* ---- Rerunner (rerunner.go:201-305)
    minRerunInterval,   \* Rerunner.minRerunInterval
    retryDelay,         \* Rerunner.retryDelay
    sinceLastRun,       \* time.Now().Sub(r.lastRun), saturating at TimeCap
    rmu,                \* Rerunner.mu: 0 free, a > 0 held by activation a of
                        \* run(), -s held by call s of Stop()
    computation,        \* Rerunner.computation: 0 is nil, a is the computation
                        \* that activation a of run() created
    stop,               \* Rerunner.stop
    cancelled,          \* r.ctx is done
    run,                \* the activations of Rerunner.run(): position, timer,
                        \* what f returned, and what started the activation
    nextRun,            \* the next activation id
    spc,                \* position of each call of Stop()
    release,            \* per computation, the `go c.node.release()` issued
    handler,            \* per computation, its node's invalidation handler:
                        \* "none", "armed" or "fired"
    out,                \* node.out of each Resource: the computations added
    resInvalidated,     \* the Resources whose node is invalidated
    compInvalidated,    \* the computations whose node is invalidated
    resTasks,           \* pending `go r.invalidate()` on Resources
    compTasks           \* pending invalidate() forwarded to computations

VARIABLES
    \* ---- release of nodes and Resource.Cleanup (rerunner.go:124-142)
    used,           \* the Resources AddDependency has been called on
    released,       \* the computations whose node.release() has run
    resReleased,    \* the Resources whose node is released: it had dependents
                    \* and none of them is live any more
    cleanupReg,     \* the Resources with a handler registered by Cleanup(fn)
    cleanupRuns     \* per Resource, how many times fn has been run

nodeVars == <<used, released, resReleased, cleanupReg, cleanupRuns>>

VARIABLES
    \* ---- federation (schema.go): one call of one of the package's functions
    fpc,            \* "idle": no call; "call": arguments given; "done": returned;
                    \* "panic": ended in a run-time panic
    fcall,          \* the arguments of the call
    fret            \* what the call returned

fedVars == <<fpc, fcall, fret>>
\* no call of the federation package is under way
NoCall == fpc = "idle" /\ fcall = <<>> /\ fret = <<>>

lockerVars == <<lmu, lm, lref, lkmu, pc, gkey, gm>>
cacheVars == <<computations, comp, cout, execCount, nextChild, calls, gctx, gchild, gret, cinvalidated>>
cache_but_map == <<comp, cout, execCount, nextChild, calls, gctx, gchild, gret, cinvalidated>>
rrVars == <<minRerunInterval, retryDelay, sinceLastRun, rmu, computation, stop, cancelled,
            run, nextRun, spc, release, handler, out, resInvalidated, compInvalidated,
            resTasks, compTasks, nodeVars>>

rr_but_compTasks == <<minRerunInterval, retryDelay, sinceLastRun, rmu, computation, stop,
                      cancelled, run, nextRun, spc, release, handler, out, resInvalidated,
                      compInvalidated, resTasks, nodeVars>>

lockerVars_but_pc == <<lmu, lm, lref, lkmu, gkey, gm>>
nonLockerVars == <<cacheVars, rrVars, fedVars>>

vars == <<lockerVars, cacheVars, rrVars, fedVars>>

\* ------------------------------------------------------------------ locker
\* new(lock): an object no table entry and no goroutine refers to
FreeLockIds == {i \in LockIds : (\A k \in Keys : lm[k] # i) /\ (\A g \in DOMAIN gm : gm[g] # i)}
NewLock == CHOOSE i \in FreeLockIds : \A j \in FreeLockIds : i <= j

\* rerunner.go:56  `if m.ref == 0`
ShouldDelete_Always(ref) == TRUE
ShouldDelete_Never(ref) == FALSE
ShouldDelete(ref) == ref = 0

\* rerunner.go:38  l.mu.Lock()
LockTableAcquire(g) ==
    /\ pc[g] = "L_mu"
    /\ lmu = 0
    /\ lmu' = g
    /\ pc' = [pc EXCEPT ![g] = "L_get"]
    /\ UNCHANGED <<lm, lref, lkmu, gkey, gm, nonLockerVars>>

\* rerunner.go:39-43  m, ok := l.m[k]; if !ok { m = new(lock); l.m[k] = m }
LockGetOrCreate(g) ==
    /\ pc[g] = "L_get"
    /\ IF lm[gkey[g]] # 0
       THEN /\ gm' = [gm EXCEPT ![g] = lm[gkey[g]]]
            /\ UNCHANGED <<lm, lref, lkmu>>
       ELSE /\ FreeLockIds # {}
            /\ gm' = [gm EXCEPT ![g] = NewLock]
            /\ lm' = [lm EXCEPT ![gkey[g]] = NewLock]
            /\ lref' = [lref EXCEPT ![NewLock] = 0]
            /\ lkmu' = [lkmu EXCEPT ![NewLock] = 0]
    /\ pc' = [pc EXCEPT ![g] = "L_ref"]
    /\ UNCHANGED <<lmu, gkey, nonLockerVars>>

\* rerunner.go:44  m.ref++
LockRefInc(g) ==
    /\ pc[g] = "L_ref"
    /\ lref' = [lref EXCEPT ![gm[g]] = @ + 1]
    /\ pc' = [pc EXCEPT ![g] = "L_unmu"]
    /\ UNCHANGED <<lmu, lm, lkmu, gkey, gm, nonLockerVars>>

\* rerunner.go:45  l.mu.Unlock()
LockTableRelease(g) ==
    /\ pc[g] = "L_unmu"
    /\ lmu' = 0
    /\ pc' = [pc EXCEPT ![g] = "L_lock"]
    /\ UNCHANGED <<lm, lref, lkmu, gkey, gm, nonLockerVars>>

\* rerunner.go:46  m.mu.Lock(): blocks while the key's mutex is held; Lock returns
LockKeyAcquire(g) ==
    /\ pc[g] = "L_lock"
    /\ lkmu[gm[g]] = 0
    /\ lkmu' = [lkmu EXCEPT ![gm[g]] = g]
    /\ gm' = [gm EXCEPT ![g] = 0]
    /\ pc' = [pc EXCEPT ![g] = "locked"]
    /\ UNCHANGED <<lmu, lm, lref, gkey, nonLockerVars>>

\* rerunner.go:52  l.mu.Lock()
UnlockTableAcquire(g) ==
    /\ pc[g] = "U_mu"
    /\ lmu = 0
    /\ lmu' = g
    /\ pc' = [pc EXCEPT ![g] = "U_get"]
    /\ UNCHANGED <<lm, lref, lkmu, gkey, gm, nonLockerVars>>

\* rerunner.go:53-54  m := l.m[k]; m.mu.Unlock()
\* a missing entry is a nil dereference and an unlocked mutex a fatal error:
\* the goroutine panics with the table mutex held
UnlockKeyRelease(g) ==
    /\ pc[g] = "U_get"
    /\ IF lm[gkey[g]] = 0 \/ lkmu[lm[gkey[g]]] = 0
       THEN /\ pc' = [pc EXCEPT ![g] = "panic"]
            /\ UNCHANGED <<lkmu, gm>>
       ELSE /\ gm' = [gm EXCEPT ![g] = lm[gkey[g]]]
            /\ lkmu' = [lkmu EXCEPT ![lm[gkey[g]]] = 0]
            /\ pc' = [pc EXCEPT ![g] = "U_ref"]
    /\ UNCHANGED <<lmu, lm, lref, gkey, nonLockerVars>>

\* rerunner.go:55  m.ref--
UnlockRefDec(g) ==
    /\ pc[g] = "U_ref"
    /\ lref' = [lref EXCEPT ![gm[g]] = @ - 1]
    /\ pc' = [pc EXCEPT ![g] = "U_del"]
    /\ UNCHANGED <<lmu, lm, lkmu, gkey, gm, nonLockerVars>>

\* rerunner.go:56-58  if m.ref == 0 { delete(l.m, k) }
UnlockDelete(g) ==
    /\ pc[g] = "U_del"
    /\ IF ShouldDelete(lref[gm[g]])
       THEN lm' = [lm EXCEPT ![gkey[g]] = 0]
       ELSE UNCHANGED lm
    /\ pc' = [pc EXCEPT ![g] = "U_unmu"]
    /\ UNCHANGED <<lmu, lref, lkmu, gkey, gm, nonLockerVars>>

\* rerunner.go:59  l.mu.Unlock(); Unlock returns
UnlockTableRelease(g) ==
    /\ pc[g] = "U_unmu"
    /\ lmu' = 0
    /\ gm' = [gm EXCEPT ![g] = 0]
    /\ gkey' = [gkey EXCEPT ![g] = 0]
    /\ pc' = [pc EXCEPT ![g] = "idle"]
    /\ UNCHANGED <<lm, lref, lkmu, nonLockerVars>>

\* newLocker(), rerunner.go:23-27: an empty table, no goroutine inside
InitLocker ==
    /\ lmu = 0
    /\ lm = [k \in Keys |-> 0]
    /\ lref = [i \in LockIds |-> 0]
    /\ lkmu = [i \in LockIds |-> 0]
    /\ pc = [g \in Procs |-> "idle"]
    /\ gkey = [g \in Procs |-> 0]
    /\ gm = [g \in Procs |-> 0]

\* ------------------------------------------------------------------ cache
NoRet == [st |-> "none", key |-> 0, value |-> 0, ctx |-> 0]
NoComp == [key |-> 0, value |-> 0, state |-> "unused", rel |-> 0]

\* &cache{computations: make(map...), locker: newLocker()}, rerunner.go:226-229;
\* no goroutine has called Cache yet
InitCache ==
    /\ computations = [k \in Keys |-> 0]
    /\ comp = [c \in ChildIds |-> NoComp]
    /\ cout = [c \in ChildIds |-> {}]
    /\ execCount = [k \in Keys |-> 0]
    /\ nextChild = 3
    /\ calls = 0
    /\ gctx = [g \in Procs |-> 0]
    /\ gchild = [g \in Procs |-> 0]
    /\ gret = [g \in Procs |-> NoRet]
    /\ cinvalidated = {}

\* cache.get, rerunner.go:74-79
cacheGet_Miss(key) == 0
cacheGet(key) == computations[key]

\* cache.set, rerunner.go:82-89: the map after set(key, c)
cacheSet(key, c) ==
    IF computations[key] = 0 THEN [computations EXCEPT ![key] = c] ELSE computations

\* node.addOut of a computation's node: the out set after addOut(target)
addOut(c, target) == [cout EXCEPT ![c] = @ \cup {target}]
\* node.addOut on a node already invalidated: the new dependent is invalidated
\* promptly (the pending invalidations after addOut(target))
addOutForward(c, target) ==
    IF c \in cinvalidated /\ target \notin compInvalidated
    THEN compTasks \cup {target} ELSE compTasks

\* rerunner.go:168-177  Cache(ctx, key, f) is called with a ctx carrying
\* computation x (0: HasRerunner(ctx) is false); with a Rerunner it goes on to
\* cache.locker.Lock(key)
CacheCall(g, k, x) ==
    /\ pc[g] = "idle"
    /\ calls < MaxCalls
    /\ calls' = calls + 1
    /\ gkey' = [gkey EXCEPT ![g] = k]
    /\ gctx' = [gctx EXCEPT ![g] = x]
    /\ gchild' = [gchild EXCEPT ![g] = 0]
    /\ gret' = [gret EXCEPT ![g] = NoRet]
    /\ pc' = [pc EXCEPT ![g] = IF x = 0 THEN "C_plain" ELSE "L_mu"]
    /\ UNCHANGED <<lmu, lm, lref, lkmu, gm, computations, comp, cout, execCount, nextChild, cinvalidated, rrVars, fedVars>>

\* rerunner.go:169-172  without a Rerunner: val, err := f(ctx); return val, err
CachePlain(g, ok) ==
    /\ pc[g] = "C_plain"
    /\ execCount' = [execCount EXCEPT ![gkey[g]] = @ + 1]
    /\ gret' = [gret EXCEPT ![g] =
                   IF ok THEN [st |-> "ok", key |-> gkey[g], value |-> execCount[gkey[g]] + 1, ctx |-> 0]
                         ELSE [st |-> "err", key |-> gkey[g], value |-> 0, ctx |-> 0]]
    /\ gkey' = [gkey EXCEPT ![g] = 0]
    /\ pc' = [pc EXCEPT ![g] = "idle"]
    /\ UNCHANGED <<lmu, lm, lref, lkmu, gm, computations, comp, cout, nextChild, calls, gctx, gchild, cinvalidated, rrVars, fedVars>>

\* rerunner.go:180  child := cache.get(key), after Lock(key) returned
CacheGet(g) ==
    /\ pc[g] = "locked"
    /\ gchild' = [gchild EXCEPT ![g] = cacheGet(gkey[g])]
    /\ pc' = [pc EXCEPT ![g] = IF cacheGet(gkey[g]) # 0 THEN "C_hit" ELSE "C_run"]
    /\ UNCHANGED <<lockerVars_but_pc, computations, comp, cout, execCount, nextChild, calls, gctx, gret, cinvalidated, rrVars, fedVars>>

\* rerunner.go:181-182  child.node.addOut(&computation.node); return child.value, nil
\* (the deferred Unlock(key) runs next)
CacheHit(g) ==
    /\ pc[g] = "C_hit"
    /\ cout' = addOut(gchild[g], gctx[g])
    /\ gret' = [gret EXCEPT ![g] = [st |-> "ok", key |-> gkey[g],
                                    value |-> comp[gchild[g]].value, ctx |-> gctx[g]]]
    /\ compTasks' = addOutForward(gchild[g], gctx[g])
    /\ gchild' = [gchild EXCEPT ![g] = 0]
    /\ pc' = [pc EXCEPT ![g] = "U_mu"]
    /\ UNCHANGED <<lockerVars_but_pc, computations, comp, execCount, nextChild, calls, gctx, cinvalidated, rr_but_compTasks, fedVars>>

\* rerunner.go:185, 146-157  run(ctx, f): a fresh computation c, f(childCtx) entered
CacheRun(g) ==
    /\ pc[g] = "C_run"
    /\ nextChild \in DOMAIN comp
    /\ execCount' = [execCount EXCEPT ![gkey[g]] = @ + 1]
    /\ comp' = [comp EXCEPT ![nextChild] =
                   [key |-> gkey[g], value |-> execCount[gkey[g]] + 1, state |-> "running", rel |-> 0]]
    /\ gchild' = [gchild EXCEPT ![g] = nextChild]
    /\ nextChild' = nextChild + 1
    /\ pc' = [pc EXCEPT ![g] = "C_f"]
    /\ UNCHANGED <<lockerVars_but_pc, computations, cout, calls, gctx, gret, cinvalidated, rrVars, fedVars>>

\* rerunner.go:158-162  run(): f returned an error; `go c.node.release()` is
\* issued for the computation just made and run returns nil, err
releaseOnError_Kept(c) == [comp EXCEPT ![c].state = "failed"]
releaseOnError(c) == [comp EXCEPT ![c].state = "failed", ![c].rel = @ + 1]

\* rerunner.go:157-165, 185-188  f returns: on an error `go c.node.release()` and
\* Cache returns nil, err; else c.value = value
CacheRunReturn(g, ok) ==
    /\ pc[g] = "C_f"
    /\ IF ok
       THEN /\ comp' = [comp EXCEPT ![gchild[g]].state = "ok"]
            /\ pc' = [pc EXCEPT ![g] = "C_set"]
            /\ UNCHANGED <<gret, gchild>>
       ELSE /\ comp' = releaseOnError(gchild[g])
            /\ gret' = [gret EXCEPT ![g] = [st |-> "err", key |-> gkey[g], value |-> 0, ctx |-> gctx[g]]]
            /\ gchild' = [gchild EXCEPT ![g] = 0]
            /\ pc' = [pc EXCEPT ![g] = "U_mu"]
    /\ UNCHANGED <<lockerVars_but_pc, computations, cout, execCount, nextChild, calls, gctx, cinvalidated, rrVars, fedVars>>

\* rerunner.go:189  cache.set(key, child)
CacheSet(g) ==
    /\ pc[g] = "C_set"
    /\ computations' = cacheSet(gkey[g], gchild[g])
    /\ pc' = [pc EXCEPT ![g] = "C_add"]
    /\ UNCHANGED <<lockerVars_but_pc, comp, cout, execCount, nextChild, calls, gctx, gchild, gret, cinvalidated, rrVars, fedVars>>

\* rerunner.go:191-192  child.node.addOut(&computation.node); return child.value, nil
CacheAdd(g) ==
    /\ pc[g] = "C_add"
    /\ cout' = addOut(gchild[g], gctx[g])
    /\ gret' = [gret EXCEPT ![g] = [st |-> "ok", key |-> gkey[g],
                                    value |-> comp[gchild[g]].value, ctx |-> gctx[g]]]
    /\ compTasks' = addOutForward(gchild[g], gctx[g])
    /\ gchild' = [gchild EXCEPT ![g] = 0]
    /\ pc' = [pc EXCEPT ![g] = "U_mu"]
    /\ UNCHANGED <<lockerVars_but_pc, computations, comp, execCount, nextChild, calls, gctx, cinvalidated, rr_but_compTasks, fedVars>>

\* --------------------------------------------------------------- Rerunner
NoRun == [pc |-> "unused", timer |-> 0, outcome |-> "none", by |-> "none", of |-> 0]

\* NewRerunner, rerunner.go:218-235: retryDelay = minRerunInterval, lastRun is the
\* zero time (so time.Now().Sub(r.lastRun) is at its maximum), `go r.run()`
NewRerunner(mi) ==
    /\ minRerunInterval = mi
    /\ retryDelay = mi
    /\ sinceLastRun = TimeCap
    /\ rmu = 0
    /\ computation = 0
    /\ stop = FALSE
    /\ cancelled = FALSE
    /\ run = [a \in RunIds |-> IF a = 1 THEN [NoRun EXCEPT !.pc = "start", !.by = "new"] ELSE NoRun]
    /\ nextRun = 2
    /\ spc = [s \in Stoppers |-> "idle"]
    /\ release = [a \in RunIds |-> 0]
    /\ handler = [a \in RunIds |-> "none"]
    /\ out = [r \in Resources |-> {}]
    /\ resInvalidated = {}
    /\ compInvalidated = {}
    /\ resTasks = {}
    /\ compTasks = {}
    /\ used = {}
    /\ released = {}
    /\ resReleased = {}
    /\ cleanupReg = {}
    /\ cleanupRuns = [r \in Resources |-> 0]

\* `go r.run()`: a new activation of run(), started by `by` ("retry": line 271 of
\* activation `of`; "handler": the invalidation handler of computation `of`)
Spawn(rs, by, of) == [rs EXCEPT ![nextRun] = [NoRun EXCEPT !.pc = "start", !.by = by, !.of = of]]

\* rerunner.go:240-241  delta := r.retryDelay - time.Now().Sub(r.lastRun); a timer
\* of a non-positive duration fires at once
TimerDelta_Zero(rd, since) == 0
TimerDelta(rd, since) == Max(rd - since, 0)

\* rerunner.go:249  r.mu.Lock() proceeds only when the mutex is free
MutexFree_Always(mu) == TRUE
MutexFree(mu) == mu = 0

\* rerunner.go:253  if r.stop { return }
BailOut_Never(stopped) == FALSE
BailOut(stopped) == stopped

\* rerunner.go:265-270  r.retryDelay = r.retryDelay * 2, at most time.Minute
Backoff_NoCap(rd) == rd * 2
Backoff(rd) == IF rd * 2 > Minute THEN Minute ELSE rd * 2

\* rerunner.go:263-277  where run() goes on after f returned: the retry branch,
\* the return of the fatal branch (the deferred Unlock), or the success branch
Branch_RetryAsSuccess(outcome) == IF outcome = "fatal" THEN "unlock" ELSE "ok_release"
Branch(outcome) ==
    CASE outcome = "retry" -> "retry"
      [] outcome = "fatal" -> "unlock"
      [] outcome = "ok" -> "ok_release"

\* cache.cleanInvalidated, rerunner.go:91-100: the map without the entries whose
\* node is invalidated
cleanInvalidated_All == [k \in Keys |-> 0]
cleanInvalidated ==
    [k \in Keys |-> IF computations[k] # 0 /\ computations[k] \in cinvalidated
                    THEN 0 ELSE computations[k]]

\* rerunner.go:240-241  the activation computes delta and arms its timer
RunStart(a) ==
    /\ run[a].pc = "start"
    /\ run' = [run EXCEPT ![a].pc = "wait", ![a].timer = TimerDelta(retryDelay, sinceLastRun)]
    /\ UNCHANGED <<minRerunInterval, retryDelay, sinceLastRun, rmu, computation, stop, cancelled,
                   nextRun, spc, release, handler, out, resInvalidated, compInvalidated,
                   resTasks, compTasks, lockerVars, cacheVars, nodeVars, fedVars>>

\* rerunner.go:243-245  case <-r.ctx.Done(): t.Stop(); return
RunCancelled(a) ==
    /\ run[a].pc = "wait"
    /\ cancelled
    /\ run' = [run EXCEPT ![a].pc = "done", ![a].timer = 0]
    /\ UNCHANGED <<minRerunInterval, retryDelay, sinceLastRun, rmu, computation, stop, cancelled,
                   nextRun, spc, release, handler, out, resInvalidated, compInvalidated,
                   resTasks, compTasks, lockerVars, cacheVars, nodeVars, fedVars>>

\* rerunner.go:246  case <-t.C:
RunTimerFired(a) ==
    /\ run[a].pc = "wait"
    /\ run[a].timer = 0
    /\ run' = [run EXCEPT ![a].pc = "lock"]
    /\ UNCHANGED <<minRerunInterval, retryDelay, sinceLastRun, rmu, computation, stop, cancelled,
                   nextRun, spc, release, handler, out, resInvalidated, compInvalidated,
                   resTasks, compTasks, lockerVars, cacheVars, nodeVars, fedVars>>

\* rerunner.go:249  r.mu.Lock()
RunLock(a) ==
    /\ run[a].pc = "lock"
    /\ MutexFree(rmu)
    /\ rmu' = a
    /\ run' = [run EXCEPT ![a].pc = "check"]
    /\ UNCHANGED <<minRerunInterval, retryDelay, sinceLastRun, computation, stop, cancelled,
                   nextRun, spc, release, handler, out, resInvalidated, compInvalidated,
                   resTasks, compTasks, lockerVars, cacheVars, nodeVars, fedVars>>

\* rerunner.go:253-261, 146-157  bail out if stopped; else cleanInvalidated(), a
\* fresh computation record (it has the activation's id), and f(childCtx) is entered
RunCheckStop(a) ==
    /\ run[a].pc = "check"
    /\ IF BailOut(stop)
       THEN /\ run' = [run EXCEPT ![a].pc = "unlock"]
            /\ UNCHANGED computations
       ELSE /\ computations' = cleanInvalidated
            /\ run' = [run EXCEPT ![a].pc = "f"]
    /\ UNCHANGED <<minRerunInterval, retryDelay, sinceLastRun, rmu, computation, stop, cancelled,
                   nextRun, spc, release, handler, out, resInvalidated, compInvalidated,
                   resTasks, compTasks, lockerVars, cache_but_map, nodeVars, fedVars>>

\* rerunner.go:140-141  the dependents AddDependency adds to r.node: the node of
\* the computation in ctx
AddDepEdge_None(c) == {}
AddDepEdge(c) == {c}

\* AddDependency(ctx, r) called by f, rerunner.go:134-142, with the computation in
\* ctx: r.node.addOut(&computation.node). A node already invalidated has the new
\* dependent invalidated promptly; a node already released has it released.
FAddDependency(a, r) ==
    /\ run[a].pc = "f"
    /\ a < MaxRuns
    /\ a \notin out[r]
    /\ out' = [out EXCEPT ![r] = @ \cup AddDepEdge(a)]
    /\ compTasks' = IF r \in resInvalidated /\ a \notin compInvalidated
                    THEN compTasks \cup {a} ELSE compTasks
    /\ used' = used \cup {r}
    /\ released' = IF r \in resReleased THEN released \cup {a} ELSE released
    /\ UNCHANGED <<minRerunInterval, retryDelay, sinceLastRun, rmu, computation, stop, cancelled,
                   run, nextRun, spc, release, handler, resInvalidated, compInvalidated,
                   resTasks, lockerVars, cacheVars, resReleased, cleanupReg, cleanupRuns, fedVars>>

\* rerunner.go:157  f returns nil, RetrySentinelError or another error
FReturn(a, outcome) ==
    /\ run[a].pc = "f"
    /\ outcome = "retry" => a < MaxRuns
    /\ run' = [run EXCEPT ![a].pc = "ran", ![a].outcome = outcome]
    /\ UNCHANGED <<minRerunInterval, retryDelay, sinceLastRun, rmu, computation, stop, cancelled,
                   nextRun, spc, release, handler, out, resInvalidated, compInvalidated,
                   resTasks, compTasks, lockerVars, cacheVars, nodeVars, fedVars>>

\* rerunner.go:158-165, 262-277  run(ctx, f) returns (after `go c.node.release()`
\* when f failed), r.lastRun = time.Now(), and the branch on err is taken
RunAfterF(a) ==
    /\ run[a].pc = "ran"
    /\ release' = IF run[a].outcome # "ok" THEN [release EXCEPT ![a] = @ + 1] ELSE release
    /\ sinceLastRun' = 0
    /\ run' = [run EXCEPT ![a].pc = Branch(run[a].outcome)]
    /\ UNCHANGED <<minRerunInterval, retryDelay, rmu, computation, stop, cancelled,
                   nextRun, spc, handler, out, resInvalidated, compInvalidated,
                   resTasks, compTasks, lockerVars, cacheVars, nodeVars, fedVars>>

\* rerunner.go:265-270  the retry delay doubles, capped at a minute
RunRetry(a) ==
    /\ run[a].pc = "retry"
    /\ retryDelay' = Backoff(retryDelay)
    /\ run' = [run EXCEPT ![a].pc = "respawn"]
    /\ UNCHANGED <<minRerunInterval, sinceLastRun, rmu, computation, stop, cancelled,
                   nextRun, spc, release, handler, out, resInvalidated, compInvalidated,
                   resTasks, compTasks, lockerVars, cacheVars, nodeVars, fedVars>>

\* rerunner.go:271-272  after `go r.run()` the retry branch is over: run()
\* returns through the deferred Unlock
AfterRespawn_FallThrough == "ok_release"
AfterRespawn == "unlock"

\* rerunner.go:271  go r.run()
RunRespawn(a) ==
    /\ run[a].pc = "respawn"
    /\ nextRun \in RunIds
    /\ run' = [Spawn(run, "retry", a) EXCEPT ![a].pc = AfterRespawn]
    /\ nextRun' = nextRun + 1
    /\ UNCHANGED <<minRerunInterval, retryDelay, sinceLastRun, rmu, computation, stop, cancelled,
                   spc, release, handler, out, resInvalidated, compInvalidated,
                   resTasks, compTasks, lockerVars, cacheVars, nodeVars, fedVars>>

\* rerunner.go:280-283  if r.computation != nil { go r.computation.node.release();
\* r.computation = nil }
RunReleaseOld(a) ==
    /\ run[a].pc = "ok_release"
    /\ IF computation # 0
       THEN /\ release' = [release EXCEPT ![computation] = @ + 1]
            /\ computation' = 0
       ELSE UNCHANGED <<release, computation>>
    /\ run' = [run EXCEPT ![a].pc = "ok_install"]
    /\ UNCHANGED <<minRerunInterval, retryDelay, sinceLastRun, rmu, stop, cancelled,
                   nextRun, spc, handler, out, resInvalidated, compInvalidated,
                   resTasks, compTasks, lockerVars, cacheVars, nodeVars, fedVars>>

\* rerunner.go:285  r.computation = computation
StoreComputation_Dropped(new) == 0
StoreComputation(new) == new

\* rerunner.go:285-286  r.computation = computation; r.retryDelay = r.minRerunInterval
RunInstall(a) ==
    /\ run[a].pc = "ok_install"
    /\ computation' = StoreComputation(a)
    /\ retryDelay' = minRerunInterval
    /\ run' = [run EXCEPT ![a].pc = "ok_handle"]
    /\ UNCHANGED <<minRerunInterval, sinceLastRun, rmu, stop, cancelled,
                   nextRun, spc, release, handler, out, resInvalidated, compInvalidated,
                   resTasks, compTasks, lockerVars, cacheVars, nodeVars, fedVars>>

\* rerunner.go:290  computation.node.handleInvalidate(r.run): registered, or run
\* at once on a fresh goroutine when the node is already invalidated
RunHandleInvalidate(a) ==
    /\ run[a].pc = "ok_handle"
    /\ IF a \in compInvalidated
       THEN /\ nextRun \in RunIds
            /\ run' = [Spawn(run, "handler", a) EXCEPT ![a].pc = "unlock"]
            /\ nextRun' = nextRun + 1
            /\ handler' = [handler EXCEPT ![a] = "fired"]
       ELSE /\ run' = [run EXCEPT ![a].pc = "unlock"]
            /\ handler' = [handler EXCEPT ![a] = "armed"]
            /\ UNCHANGED nextRun
    /\ UNCHANGED <<minRerunInterval, retryDelay, sinceLastRun, rmu, computation, stop, cancelled,
                   spc, release, out, resInvalidated, compInvalidated,
                   resTasks, compTasks, lockerVars, cacheVars, nodeVars, fedVars>>

\* rerunner.go:250  defer r.mu.Unlock(); run() returns
RunUnlock(a) ==
    /\ run[a].pc = "unlock"
    /\ rmu' = 0
    /\ run' = [run EXCEPT ![a].pc = "done"]
    /\ UNCHANGED <<minRerunInterval, retryDelay, sinceLastRun, computation, stop, cancelled,
                   nextRun, spc, release, handler, out, resInvalidated, compInvalidated,
                   resTasks, compTasks, lockerVars, cacheVars, nodeVars, fedVars>>

\* rerunner.go:296  Stop(): r.cancelCtx()
StopCancel(s) ==
    /\ spc[s] = "idle"
    /\ IF s = 1 THEN TRUE ELSE spc[s - 1] # "idle"   \* calls are numbered as they start
    /\ cancelled' = TRUE
    /\ spc' = [spc EXCEPT ![s] = "lock"]
    /\ UNCHANGED <<minRerunInterval, retryDelay, sinceLastRun, rmu, computation, stop,
                   run, nextRun, release, handler, out, resInvalidated, compInvalidated,
                   resTasks, compTasks, lockerVars, cacheVars, nodeVars, fedVars>>

\* rerunner.go:298  r.mu.Lock()
StopLock(s) ==
    /\ spc[s] = "lock"
    /\ rmu = 0
    /\ rmu' = -s
    /\ spc' = [spc EXCEPT ![s] = "set"]
    /\ UNCHANGED <<minRerunInterval, retryDelay, sinceLastRun, computation, stop, cancelled,
                   run, nextRun, release, handler, out, resInvalidated, compInvalidated,
                   resTasks, compTasks, lockerVars, cacheVars, nodeVars, fedVars>>

\* rerunner.go:299-303  r.stop = true; if r.computation != nil
\* { go r.computation.node.release(); r.computation = nil }
StopSet(s) ==
    /\ spc[s] = "set"
    /\ stop' = TRUE
    /\ IF computation # 0
       THEN /\ release' = [release EXCEPT ![computation] = @ + 1]
            /\ computation' = 0
       ELSE UNCHANGED <<release, computation>>
    /\ spc' = [spc EXCEPT ![s] = "unlock"]
    /\ UNCHANGED <<minRerunInterval, retryDelay, sinceLastRun, rmu, cancelled,
                   run, nextRun, handler, out, resInvalidated, compInvalidated,
                   resTasks, compTasks, lockerVars, cacheVars, nodeVars, fedVars>>

\* rerunner.go:304  r.mu.Unlock(); Stop returns
StopUnlock(s) ==
    /\ spc[s] = "unlock"
    /\ rmu' = 0
    /\ spc' = [spc EXCEPT ![s] = "returned"]
    /\ UNCHANGED <<minRerunInterval, retryDelay, sinceLastRun, computation, stop, cancelled,
                   run, nextRun, release, handler, out, resInvalidated, compInvalidated,
                   resTasks, compTasks, lockerVars, cacheVars, nodeVars, fedVars>>

\* Resource.Invalidate, rerunner.go:115-117: go r.invalidate(). On a node already
\* invalidated invalidate() changes nothing whenever it runs, so no task is kept.
Invalidate(r) ==
    /\ r \notin resTasks
    /\ r \notin resInvalidated
    /\ resTasks' = resTasks \cup {r}
    /\ UNCHANGED <<minRerunInterval, retryDelay, sinceLastRun, rmu, computation, stop, cancelled,
                   run, nextRun, spc, release, handler, out, resInvalidated, compInvalidated,
                   compTasks, lockerVars, cacheVars, nodeVars, fedVars>>

\* node.invalidate() of a Resource's node: set the flag and forward to every
\* dependent (a dependent already invalidated ignores it)
ResourceInvalidate(r) ==
    /\ r \in resTasks
    /\ resTasks' = resTasks \ {r}
    /\ resInvalidated' = resInvalidated \cup {r}
    /\ compTasks' = compTasks \cup (out[r] \ compInvalidated)
    /\ UNCHANGED <<minRerunInterval, retryDelay, sinceLastRun, rmu, computation, stop, cancelled,
                   run, nextRun, spc, release, handler, out, compInvalidated,
                   lockerVars, cacheVars, nodeVars, fedVars>>

\* node.invalidate() of a computation's node: set the flag and run the pending
\* invalidation handler (r.run) once, on a fresh goroutine
CompInvalidate(c) ==
    /\ c \in compTasks
    /\ compTasks' = compTasks \ {c}
    /\ compInvalidated' = compInvalidated \cup {c}
    /\ IF handler[c] = "armed"
       THEN /\ nextRun \in RunIds
            /\ run' = Spawn(run, "handler", c)
            /\ nextRun' = nextRun + 1
            /\ handler' = [handler EXCEPT ![c] = "fired"]
       ELSE UNCHANGED <<handler, run, nextRun>>
    /\ UNCHANGED <<minRerunInterval, retryDelay, sinceLastRun, rmu, computation, stop, cancelled,
                   spc, release, out, resInvalidated, resTasks, lockerVars, cacheVars, nodeVars, fedVars>>

\* time passes: the clock moves on by TickStep and every running timer with it
Tick ==
    /\ sinceLastRun < TimeCap \/ \E a \in RunIds : run[a].pc = "wait" /\ run[a].timer > 0
    /\ sinceLastRun' = Min(sinceLastRun + TickStep, TimeCap)
    /\ run' = [a \in RunIds |-> IF run[a].pc = "wait"
                                THEN [run[a] EXCEPT !.timer = Max(@ - TickStep, 0)]
                                ELSE run[a]]
    /\ UNCHANGED <<minRerunInterval, retryDelay, rmu, computation, stop, cancelled,
                   nextRun, spc, release, handler, out, resInvalidated, compInvalidated,
                   resTasks, compTasks, lockerVars, cacheVars, nodeVars, fedVars>>

\* ---- clients of the bare locker: any goroutine may call Lock(k) for any key,
\* and the holder calls Unlock(k)
LockCall(g, k) ==
    /\ pc[g] = "idle"
    /\ gkey' = [gkey EXCEPT ![g] = k]
    /\ pc' = [pc EXCEPT ![g] = "L_mu"]
    /\ UNCHANGED <<lmu, lm, lref, lkmu, gm, nonLockerVars>>

UnlockCall(g) ==
    /\ pc[g] = "locked"
    /\ pc' = [pc EXCEPT ![g] = "U_mu"]
    /\ UNCHANGED <<lmu, lm, lref, lkmu, gkey, gm, nonLockerVars>>

NextLocker ==
    \E g \in Procs :
        \/ \E k \in Keys : LockCall(g, k)
        \/ UnlockCall(g)
        \/ LockTableAcquire(g)
        \/ LockGetOrCreate(g)
        \/ LockRefInc(g)
        \/ LockTableRelease(g)
        \/ LockKeyAcquire(g)
        \/ UnlockTableAcquire(g)
        \/ UnlockKeyRelease(g)
        \/ UnlockRefDec(g)
        \/ UnlockDelete(g)
        \/ UnlockTableRelease(g)

\* the locker and the cache of a Rerunner just constructed
InitReactive == InitLocker /\ InitCache /\ NewRerunner(0) /\ NoCall

SpecLocker == InitReactive /\ [][NextLocker]_vars

NextCache ==
    \E g \in Callers :
        \/ \E k \in Keys, x \in {0, CtxOf(g)} : CacheCall(g, k, x)
        \/ \E ok \in BOOLEAN : CachePlain(g, ok)
        \/ CacheGet(g)
        \/ CacheHit(g)
        \/ CacheRun(g)
        \/ \E ok \in BOOLEAN : CacheRunReturn(g, ok)
        \/ CacheSet(g)
        \/ CacheAdd(g)
        \/ LockTableAcquire(g)
        \/ LockGetOrCreate(g)
        \/ LockRefInc(g)
        \/ LockTableRelease(g)
        \/ LockKeyAcquire(g)
        \/ UnlockTableAcquire(g)
        \/ UnlockKeyRelease(g)
        \/ UnlockRefDec(g)
        \/ UnlockDelete(g)
        \/ UnlockTableRelease(g)

SpecCache == InitReactive /\ [][NextCache]_vars

\* ---------------------------------------------------- Cache called from within f
\* SpecNested: the inner function of a Cache call may itself call Cache, with the
\* childCtx that run() handed it (rerunner.go:154-157); childCtx is derived from
\* ctx, so it carries the same cache and locker.  Each call is a frame: frames
\* 1..Cardinality(Callers) are the calls the goroutines make, and frame
\* g + Cardinality(Callers) is the call made by the inner function of frame g.
Frames == 1..(MaxDepth * Cardinality(Callers))
Inner(g) == g + Cardinality(Callers)

\* the locker and the cache of a Rerunner just constructed, no frame in a call
InitNested ==
    /\ lmu = 0
    /\ lm = [k \in Keys |-> 0]
    /\ lref = [i \in LockIds |-> 0]
    /\ lkmu = [i \in LockIds |-> 0]
    /\ pc = [g \in Frames |-> "idle"]
    /\ gkey = [g \in Frames |-> 0]
    /\ gm = [g \in Frames |-> 0]
    /\ computations = [k \in Keys |-> 0]
    /\ comp = [c \in 3..(2 + MaxDepth * MaxCalls) |-> NoComp]
    /\ cout = [c \in 3..(2 + MaxDepth * MaxCalls) |-> {}]
    /\ execCount = [k \in Keys |-> 0]
    /\ nextChild = 3
    /\ calls = 0
    /\ gctx = [g \in Frames |-> 0]
    /\ gchild = [g \in Frames |-> 0]
    /\ gret = [g \in Frames |-> NoRet]
    /\ cinvalidated = {}
    /\ NewRerunner(0)
    /\ NoCall

\* rerunner.go:157, 168-177  f(childCtx), running for frame g, calls
\* Cache(childCtx, k, f'): HasRerunner(childCtx) holds, the computation of the
\* new frame is the one run() made for g, and the frame goes on to
\* cache.locker.Lock(k) while g still holds its own key
CacheNestedCall(g, k) ==
    /\ pc[g] = "C_f"
    /\ Inner(g) \in Frames
    /\ pc[Inner(g)] = "idle"
    /\ calls < MaxDepth * MaxCalls
    /\ calls' = calls + 1
    /\ gkey' = [gkey EXCEPT ![Inner(g)] = k]
    /\ gctx' = [gctx EXCEPT ![Inner(g)] = gchild[g]]
    /\ gchild' = [gchild EXCEPT ![Inner(g)] = 0]
    /\ gret' = [gret EXCEPT ![Inner(g)] = NoRet]
    /\ pc' = [pc EXCEPT ![g] = "C_inner", ![Inner(g)] = "L_mu"]
    /\ UNCHANGED <<lmu, lm, lref, lkmu, gm, computations, comp, cout, execCount, nextChild, cinvalidated, rrVars, fedVars>>

\* rerunner.go:157, 178, 192  the nested Cache call has returned (its deferred
\* Unlock included) and f goes on
CacheNestedReturn(g) ==
    /\ pc[g] = "C_inner"
    /\ pc[Inner(g)] = "idle"
    /\ pc' = [pc EXCEPT ![g] = "C_f"]
    /\ UNCHANGED <<lockerVars_but_pc, cacheVars, rrVars, fedVars>>

NextNested ==
    \/ \E g \in Callers :
           \/ \E k \in Keys, x \in {0, CtxOf(g)} : CacheCall(g, k, x)
           \/ \E ok \in BOOLEAN : CachePlain(g, ok)
    \/ \E g \in Frames :
           \/ \E k \in Keys : CacheNestedCall(g, k)
           \/ CacheNestedReturn(g)
           \/ CacheGet(g)
           \/ CacheHit(g)
           \/ CacheRun(g)
           \/ \E ok \in BOOLEAN : CacheRunReturn(g, ok)
           \/ CacheSet(g)
           \/ CacheAdd(g)
           \/ LockTableAcquire(g)
           \/ LockGetOrCreate(g)
           \/ LockRefInc(g)
           \/ LockTableRelease(g)
           \/ LockKeyAcquire(g)
           \/ UnlockTableAcquire(g)
           \/ UnlockKeyRelease(g)
           \/ UnlockRefDec(g)
           \/ UnlockDelete(g)
           \/ UnlockTableRelease(g)

SpecNested == InitNested /\ [][NextNested]_vars

NextRerunner ==
    \/ \E a \in RunIds :
        \/ RunStart(a)
        \/ RunCancelled(a)
        \/ RunTimerFired(a)
        \/ RunLock(a)
        \/ RunCheckStop(a)
        \/ \E r \in Resources : FAddDependency(a, r)
        \/ \E outcome \in {"ok", "retry", "fatal"} : FReturn(a, outcome)
        \/ RunAfterF(a)
        \/ RunRetry(a)
        \/ RunRespawn(a)
        \/ RunReleaseOld(a)
        \/ RunInstall(a)
        \/ RunHandleInvalidate(a)
        \/ RunUnlock(a)
        \/ CompInvalidate(a)
    \/ \E s \in Stoppers :
        \/ StopCancel(s)
        \/ StopLock(s)
        \/ StopSet(s)
        \/ StopUnlock(s)
    \/ \E r \in Resources :
        \/ Invalidate(r)
        \/ ResourceInvalidate(r)
    \/ Tick

InitRerunner == InitLocker /\ InitCache /\ NoCall /\ \E mi \in MinIntervals : NewRerunner(mi)

SpecRerunner == InitRerunner /\ [][NextRerunner]_vars


\* ---- a Rerunner whose f calls Cache (SpecMemo)
\* f makes its Cache calls one after the other, on its own goroutine (concurrent
\* callers are the subject of SpecCache)
MemoCallers == {1}

\* f, running in activation a, calls Cache(ctx, k, g) on goroutine g with the
\* ctx of a's computation
FCacheCall(a, g, k) ==
    /\ run[a].pc = "f"
    /\ CacheCall(g, k, a)

\* f returns once the Cache calls it made have returned
FReturnAfterCache(a, outcome) ==
    /\ \A g \in MemoCallers : pc[g] = "idle"
    /\ FReturn(a, outcome)

\* node.invalidate() of a sub-computation's node (one of its dependencies was
\* invalidated): set the flag and forward to every dependent
ChildInvalidate(c) ==
    /\ comp[c].state \in {"running", "ok"}
    /\ c \notin cinvalidated
    /\ cinvalidated' = cinvalidated \cup {c}
    /\ compTasks' = compTasks \cup (cout[c] \ compInvalidated)
    /\ UNCHANGED <<lockerVars, computations, comp, cout, execCount, nextChild, calls, gctx,
                   gchild, gret, rr_but_compTasks, fedVars>>

NextMemo ==
    \/ \E a \in RunIds :
        \/ RunStart(a)
        \/ RunTimerFired(a)
        \/ RunLock(a)
        \/ RunCheckStop(a)
        \/ \E g \in MemoCallers, k \in Keys : FCacheCall(a, g, k)
        \/ \E outcome \in {"ok", "retry", "fatal"} : FReturnAfterCache(a, outcome)
        \/ RunAfterF(a)
        \/ RunRetry(a)
        \/ RunRespawn(a)
        \/ RunReleaseOld(a)
        \/ RunInstall(a)
        \/ RunHandleInvalidate(a)
        \/ RunUnlock(a)
        \/ CompInvalidate(a)
    \/ \E g \in MemoCallers :
        \/ CacheGet(g)
        \/ CacheHit(g)
        \/ CacheRun(g)
        \/ \E ok \in BOOLEAN : CacheRunReturn(g, ok)
        \/ CacheSet(g)
        \/ CacheAdd(g)
        \/ LockTableAcquire(g)
        \/ LockGetOrCreate(g)
        \/ LockRefInc(g)
        \/ LockTableRelease(g)
        \/ LockKeyAcquire(g)
        \/ UnlockTableAcquire(g)
        \/ UnlockKeyRelease(g)
        \/ UnlockRefDec(g)
        \/ UnlockDelete(g)
        \/ UnlockTableRelease(g)
    \/ \E c \in ChildIds : ChildInvalidate(c)

SpecMemo == InitReactive /\ [][NextMemo]_vars

\* ---- release of nodes and Resource.Cleanup (SpecCleanup)
\* fn of a Resource whose node becomes released runs, once, if it is registered
RunCleanup(newly) ==
    [r \in Resources |-> IF r \in newly /\ r \in cleanupReg
                         THEN cleanupRuns[r] + 1 ELSE cleanupRuns[r]]

\* Resource.Cleanup(fn), rerunner.go:124-129: r.node.handleRelease(fn); on a node
\* already released fn is run at once
Cleanup(r) ==
    /\ r \notin cleanupReg
    /\ cleanupReg' = cleanupReg \cup {r}
    /\ cleanupRuns' = IF r \in resReleased
                      THEN [cleanupRuns EXCEPT ![r] = @ + 1] ELSE cleanupRuns
    /\ UNCHANGED <<lockerVars, cacheVars, minRerunInterval, retryDelay, sinceLastRun, rmu,
                   computation, stop, cancelled, run, nextRun, spc, release, handler, out,
                   resInvalidated, compInvalidated, resTasks, compTasks,
                   used, released, resReleased, fedVars>>

\* AddDependency(ctx, r) with no Rerunner in ctx, rerunner.go:135-138:
\* r.node.addOut(&node{released: true}); a node whose dependents are all
\* released is released
AddDependencyPlain(r) ==
    /\ used' = used \cup {r}
    /\ resReleased' = IF out[r] \subseteq released THEN resReleased \cup {r} ELSE resReleased
    /\ cleanupRuns' = RunCleanup(resReleased' \ resReleased)
    /\ UNCHANGED <<lockerVars, cacheVars, minRerunInterval, retryDelay, sinceLastRun, rmu,
                   computation, stop, cancelled, run, nextRun, spc, release, handler, out,
                   resInvalidated, compInvalidated, resTasks, compTasks,
                   released, cleanupReg, fedVars>>

\* node.release() of computation c's node, run by one of the `go c.node.release()`
\* issued for it: c is released, and so is every Resource that c was the last
\* live dependent of
NodeRelease(c) ==
    /\ release[c] > 0
    /\ c \notin released
    /\ released' = released \cup {c}
    /\ resReleased' = resReleased \cup {r \in Resources : c \in out[r] /\ out[r] \subseteq released'}
    /\ cleanupRuns' = RunCleanup(resReleased' \ resReleased)
    /\ UNCHANGED <<lockerVars, cacheVars, minRerunInterval, retryDelay, sinceLastRun, rmu,
                   computation, stop, cancelled, run, nextRun, spc, release, handler, out,
                   resInvalidated, compInvalidated, resTasks, compTasks,
                   used, cleanupReg, fedVars>>

NextCleanup ==
    \/ \E a \in RunIds :
        \/ RunStart(a)
        \/ RunCancelled(a)
        \/ RunTimerFired(a)
        \/ RunLock(a)
        \/ RunCheckStop(a)
        \/ \E r \in Resources : FAddDependency(a, r)
        \/ \E outcome \in {"ok", "retry", "fatal"} : FReturn(a, outcome)
        \/ RunAfterF(a)
        \/ RunRetry(a)
        \/ RunRespawn(a)
        \/ RunReleaseOld(a)
        \/ RunInstall(a)
        \/ RunHandleInvalidate(a)
        \/ RunUnlock(a)
        \/ CompInvalidate(a)
        \/ NodeRelease(a)
    \/ StopCancel(1)
    \/ StopLock(1)
    \/ StopSet(1)
    \/ StopUnlock(1)
    \/ \E r \in Resources :
        \/ Invalidate(r)
        \/ ResourceInvalidate(r)
        \/ Cleanup(r)
        \/ AddDependencyPlain(r)

SpecCleanup == InitReactive /\ [][NextCleanup]_vars

\* =============================================================== federation
\* (src/federation/schema.go) Names (of types, fields, arguments, enum values,
\* services, versions) are numbers, ordered as sort.Strings orders the strings
\* they stand for.

\* introspectionTypeRef, schema.go:49-53: the wrappers (NON_NULL, LIST) from the
\* outside in, then the kind and name of the named type
TypeRef(w, k, n) == [wrap |-> w, kind |-> k, name |-> n]
Named(k, n) == TypeRef(<<>>, k, n)
NonNull(t) == [t EXCEPT !.wrap = <<"NON_NULL">> \o @]
List(t) == [t EXCEPT !.wrap = <<"LIST">> \o @]
\* t.Kind and t.OfType
Kind(t) == IF t.wrap # <<>> THEN Head(t.wrap) ELSE t.kind
OfType(t) == [t EXCEPT !.wrap = Tail(@)]

NamedKinds == {"SCALAR", "ENUM", "INPUT_OBJECT", "UNION", "OBJECT"}

\* a function's two results: a value and a nil error, or no value and an error
\* (err is the outermost message, cause the message of the innermost error)
Ok(v) == [err |-> "", cause |-> "", val |-> v]
Err(e) == [err |-> e, cause |-> e, val |-> <<>>]

\* schema.go:130  resultNonNil := isInput || (aNonNil && bNonNil)
ResultNonNil_Both(isInput, aNonNil, bNonNil) == aNonNil /\ bNonNil
ResultNonNil_Left(isInput, aNonNil, bNonNil) == isInput \/ aNonNil
ResultNonNil(isInput, aNonNil, bNonNil) == isInput \/ (aNonNil /\ bNonNil)

\* mergeTypeRefs, schema.go:108-168
RECURSIVE mergeTypeRefs(_, _, _)
mergeTypeRefs(a0, b0, isInput) ==
    LET aNonNil == Kind(a0) = "NON_NULL"
        a == IF aNonNil THEN OfType(a0) ELSE a0
        bNonNil == Kind(b0) = "NON_NULL"
        b == IF bNonNil THEN OfType(b0) ELSE b0
    IN  IF aNonNil \/ bNonNil
        THEN LET merged == mergeTypeRefs(a, b, isInput)
             IN  IF merged.err # "" THEN merged
                 ELSE IF ResultNonNil(isInput, aNonNil, bNonNil)
                      THEN Ok(NonNull(merged.val))
                      ELSE merged
        ELSE IF Kind(a) # Kind(b) THEN Err("kinds differ")
        ELSE IF Kind(a) \in NamedKinds
             THEN IF a.name # b.name
                  THEN Err("types must be identical")
                  ELSE Ok(Named(a.kind, a.name))
        ELSE IF Kind(a) = "LIST"
             THEN LET inner == mergeTypeRefs(OfType(a), OfType(b), isInput)
                  IN  IF inner.err # "" THEN inner ELSE Ok(List(inner.val))
        ELSE Err("unknown type kind")

\* the type references given to mergeTypeRefs: up to MaxWrap wrappers around a
\* named type of a known or an unknown kind
TypeRefs ==
    LET Wraps == UNION {[1..n -> {"NON_NULL", "LIST"}] : n \in 0..MaxWrap}
    IN  {TypeRef(w, k, n) : w \in Wraps, k \in {"SCALAR", "OBJECT", "INTERFACE"}, n \in 1..2}

InitTypeRefs ==
    /\ InitLocker /\ InitCache /\ NewRerunner(0)
    /\ fpc = "call"
    /\ fcall \in [a : TypeRefs, b : TypeRefs, isInput : BOOLEAN]
    /\ fret = <<>>

\* the call mergeTypeRefs(a, b, isInput) returns
MergeTypeRefs ==
    /\ fpc = "call"
    /\ fret' = mergeTypeRefs(fcall.a, fcall.b, fcall.isInput)
    /\ fpc' = "done"
    /\ UNCHANGED <<fcall, lockerVars, cacheVars, rrVars>>

SpecTypeRefs == InitTypeRefs /\ [][MergeTypeRefs]_vars

\* ---- the schema merger, schema.go:172-402
\* MergeMode, schema.go:14-46
Union == "union"
Intersection == "intersection"

\* an error returned with the message of the error it wraps
WrapErr(e, inner) == [err |-> e, cause |-> inner.cause, val |-> <<>>]

\* the names in the multimap `types`, as sort.Strings leaves them
\* (schema.go:175-186 and the same lines of the other mergers)
RECURSIVE Sorted(_)
Sorted(S) ==
    IF S = {} THEN <<>>
    ELSE LET m == CHOOSE x \in S : \A y \in S : x <= y
         IN  <<m>> \o Sorted(S \ {m})
NamesOf(a, b) == {a[i].name : i \in DOMAIN a} \cup {b[i].name : i \in DOMAIN b}
\* types[name]: the entries of a with that name, then those of b
Occurrences(a, b, name) ==
    SelectSeq(a, LAMBDA x : x.name = name) \o SelectSeq(b, LAMBDA x : x.name = name)

\* `if mode == Union { merged = append(merged, p[0]) }` for a name with one
\* occurrence (schema.go:193, 229, 271, 301, 383)
IncludeSingle_Always(mode) == TRUE
IncludeSingle_Never(mode) == FALSE
IncludeSingle(mode) == mode = Union

\* schema.go:190  if p[0].Type.Kind == "NON_NULL"
SingleRejected_Never(t) == FALSE
SingleRejected(t) == Kind(t) = "NON_NULL"

\* introspectionInputField, schema.go:71-74
InputField(n, t) == [name |-> n, type |-> t]

\* mergeInputFields, schema.go:172-209: the loop over the sorted names
RECURSIVE mergeInputFieldsLoop(_, _, _, _, _)
mergeInputFieldsLoop(names, a, b, mode, merged) ==
    IF names = <<>> THEN Ok(merged)
    ELSE LET name == Head(names)
             p == Occurrences(a, b, name)
         IN  IF Len(p) = 1
             THEN IF SingleRejected(p[1].type)
                  THEN Err("new field is non-null")
                  ELSE mergeInputFieldsLoop(Tail(names), a, b, mode,
                           IF IncludeSingle(mode) THEN Append(merged, p[1]) ELSE merged)
             ELSE LET m == mergeTypeRefs(p[1].type, p[2].type, TRUE)
                  IN  IF m.err # ""
                      THEN WrapErr("field has incompatible types", m)
                      ELSE mergeInputFieldsLoop(Tail(names), a, b, mode,
                               Append(merged, InputField(name, m.val)))
mergeInputFields(a, b, mode) == mergeInputFieldsLoop(Sorted(NamesOf(a, b)), a, b, mode, <<>>)

\* introspectionField, schema.go:76-80
Field(n, t, args) == [name |-> n, type |-> t, args |-> args]

\* mergeFields, schema.go:210-252
RECURSIVE mergeFieldsLoop(_, _, _, _, _)
mergeFieldsLoop(names, a, b, mode, merged) ==
    IF names = <<>> THEN Ok(merged)
    ELSE LET name == Head(names)
             p == Occurrences(a, b, name)
         IN  IF Len(p) = 1
             THEN mergeFieldsLoop(Tail(names), a, b, mode,
                      IF IncludeSingle(mode) THEN Append(merged, p[1]) ELSE merged)
             ELSE LET typ == mergeTypeRefs(p[1].type, p[2].type, FALSE)
                      args == mergeInputFields(p[1].args, p[2].args, mode)
                  IN  IF typ.err # "" THEN WrapErr("field has incompatible types", typ)
                      ELSE IF args.err # "" THEN WrapErr("field has incompatible arguments", args)
                      ELSE mergeFieldsLoop(Tail(names), a, b, mode,
                               Append(merged, Field(name, typ.val, args.val)))
mergeFields(a, b, mode) == mergeFieldsLoop(Sorted(NamesOf(a, b)), a, b, mode, <<>>)

\* mergePossibleTypes, schema.go:254-282, and mergeEnumValues, schema.go:284-312:
\* the same loop, which takes the first occurrence of a name that occurs twice
RECURSIVE mergeFirstLoop(_, _, _, _, _)
mergeFirstLoop(names, a, b, mode, merged) ==
    IF names = <<>> THEN Ok(merged)
    ELSE LET p == Occurrences(a, b, Head(names))
         IN  mergeFirstLoop(Tail(names), a, b, mode,
                 IF Len(p) = 1 /\ ~IncludeSingle(mode) THEN merged ELSE Append(merged, p[1]))
mergePossibleTypes(a, b, mode) == mergeFirstLoop(Sorted(NamesOf(a, b)), a, b, mode, <<>>)
mergeEnumValues(a, b, mode) == mergeFirstLoop(Sorted(NamesOf(a, b)), a, b, mode, <<>>)

\* introspectionEnumValue, schema.go:82-84, and introspectionType, schema.go:86-93
EnumValue(n) == [name |-> n]
Type(n, k, fields, inputFields, possibleTypes, enumValues) ==
    [name |-> n, kind |-> k, fields |-> fields, inputFields |-> inputFields,
     possibleTypes |-> possibleTypes, enumValues |-> enumValues]

\* mergeTypes, schema.go:314-364
mergeTypes(a, b, mode) ==
    IF a.kind # b.kind THEN Err("conflicting kinds")
    ELSE LET merged == Type(a.name, a.kind, <<>>, <<>>, <<>>, <<>>)
         IN  CASE a.kind = "INPUT_OBJECT" ->
                    LET inputFields == mergeInputFields(a.inputFields, b.inputFields, mode)
                    IN  IF inputFields.err # "" THEN WrapErr("merging input fields", inputFields)
                        ELSE Ok([merged EXCEPT !.inputFields = inputFields.val])
               [] a.kind = "OBJECT" ->
                    LET fields == mergeFields(a.fields, b.fields, mode)
                    IN  IF fields.err # "" THEN WrapErr("merging fields", fields)
                        ELSE Ok([merged EXCEPT !.fields = fields.val])
               [] a.kind = "UNION" ->
                    LET possibleTypes == mergePossibleTypes(a.possibleTypes, b.possibleTypes, mode)
                    IN  IF possibleTypes.err # "" THEN WrapErr("merging possible types", possibleTypes)
                        ELSE Ok([merged EXCEPT !.possibleTypes = possibleTypes.val])
               [] a.kind = "ENUM" ->
                    LET enumValues == mergeEnumValues(a.enumValues, b.enumValues, mode)
                    IN  IF enumValues.err # "" THEN WrapErr("merging enum values", enumValues)
                        ELSE Ok([merged EXCEPT !.enumValues = enumValues.val])
               [] a.kind = "SCALAR" -> Ok(merged)
               [] OTHER -> Err("unknown kind")

\* mergeSchemas, schema.go:366-402, on the type lists of the two schemas
RECURSIVE mergeSchemasLoop(_, _, _, _, _)
mergeSchemasLoop(names, a, b, mode, merged) ==
    IF names = <<>> THEN Ok(merged)
    ELSE LET p == Occurrences(a, b, Head(names))
         IN  IF Len(p) = 1
             THEN mergeSchemasLoop(Tail(names), a, b, mode,
                      IF IncludeSingle(mode) THEN Append(merged, p[1]) ELSE merged)
             ELSE LET m == mergeTypes(p[1], p[2], mode)
                  IN  IF m.err # "" THEN WrapErr("can't merge type", m)
                      ELSE mergeSchemasLoop(Tail(names), a, b, mode, Append(merged, m.val))
mergeSchemas(a, b, mode) == mergeSchemasLoop(Sorted(NamesOf(a, b)), a, b, mode, <<>>)

\* ---- the calls of mergeInputFields (SpecInputFields)
\* no entry
NoType == Named("", 0)
\* the lists of input fields given to mergeInputFields: for every name, no
\* field or a field of type Int, Int!, [Int], [Int]! or String
InputLists ==
    LET InputTypes ==
            {Named("SCALAR", 1), NonNull(Named("SCALAR", 1)), List(Named("SCALAR", 1)),
             NonNull(List(Named("SCALAR", 1))), Named("SCALAR", 2)}
        InputListOf(f) ==
            LET present == Sorted({n \in DOMAIN f : f[n] # NoType})
            IN  [j \in 1..Len(present) |-> InputField(present[j], f[present[j]])]
    IN  {InputListOf(f) : f \in [1..NFieldNames -> InputTypes \cup {NoType}]}

InitInputFields ==
    /\ InitLocker /\ InitCache /\ NewRerunner(0)
    /\ fpc = "call"
    /\ fcall \in [a : InputLists, b : InputLists, mode : {Union, Intersection}]
    /\ fret = <<>>

\* the call mergeInputFields(a, b, mode) returns
MergeInputFields ==
    /\ fpc = "call"
    /\ fret' = mergeInputFields(fcall.a, fcall.b, fcall.mode)
    /\ fpc' = "done"
    /\ UNCHANGED <<fcall, lockerVars, cacheVars, rrVars>>

SpecInputFields == InitInputFields /\ [][MergeInputFields]_vars

\* ---- the calls of mergeSchemas (SpecMerge)
\* the schemas given to mergeSchemas, as lists of types with the names 1 and 2.
\* Type 1 is an OBJECT with fields 1 (Int, Int! or String, with or without an
\* argument of type Int or Int!) and 2, an INPUT_OBJECT with input fields 1 (Int,
\* Int! or String) and 2, an ENUM with values among 1 and 2, a UNION with
\* possible types among the objects 1 and 2, or a SCALAR; type 2 is a SCALAR, an
\* OBJECT or of a kind unknown to the package. The schemas are unmarshalled from
\* the services' answers and reach mergeSchemas unvalidated (schema.go:630,
\* 640): Duplicated are the schemas that list type 1 twice, and one list of
\* fields lists field 1 twice.
IntType == Named("SCALAR", 1)
StringType == Named("SCALAR", 2)
EnumLists == {<<>>, <<EnumValue(1)>>, <<EnumValue(2)>>, <<EnumValue(1), EnumValue(2)>>}
Schemas ==
    LET Field1s ==
            {Field(1, IntType, <<>>), Field(1, NonNull(IntType), <<>>),
             Field(1, StringType, <<>>), Field(1, IntType, <<InputField(1, IntType)>>),
             Field(1, IntType, <<InputField(1, NonNull(IntType))>>)}
        FieldLists ==
            {<<>>, <<Field(2, IntType, <<>>)>>,
             <<Field(1, IntType, <<>>), Field(1, IntType, <<>>)>>}
                \cup {<<f>> : f \in Field1s}
                \cup {<<f, Field(2, IntType, <<>>)>> : f \in Field1s}
        InputField1s ==
            {InputField(1, IntType), InputField(1, NonNull(IntType)),
             InputField(1, StringType)}
        InputFieldLists ==
            {<<>>, <<InputField(2, IntType)>>} \cup {<<f>> : f \in InputField1s}
                \cup {<<f, InputField(2, IntType)>> : f \in InputField1s}
        PossibleLists ==
            {<<>>, <<Named("OBJECT", 1)>>, <<Named("OBJECT", 2)>>,
             <<Named("OBJECT", 1), Named("OBJECT", 2)>>}
        Types1 ==
            {Type(1, "OBJECT", l, <<>>, <<>>, <<>>) : l \in FieldLists}
                \cup {Type(1, "INPUT_OBJECT", <<>>, l, <<>>, <<>>) : l \in InputFieldLists}
                \cup {Type(1, "UNION", <<>>, <<>>, l, <<>>) : l \in PossibleLists}
                \cup {Type(1, "ENUM", <<>>, <<>>, <<>>, l) : l \in EnumLists}
                \cup {Type(1, "SCALAR", <<>>, <<>>, <<>>, <<>>)}
        Types2 ==
            {Type(2, "SCALAR", <<>>, <<>>, <<>>, <<>>),
             Type(2, "OBJECT", <<Field(1, IntType, <<>>)>>, <<>>, <<>>, <<>>),
             Type(2, "INTERFACE", <<>>, <<>>, <<>>, <<>>)}
        Repeated ==
            {Type(1, "OBJECT", <<Field(1, IntType, <<>>)>>, <<>>, <<>>, <<>>),
             Type(1, "OBJECT", <<Field(2, IntType, <<>>)>>, <<>>, <<>>, <<>>),
             Type(1, "ENUM", <<>>, <<>>, <<>>, <<EnumValue(1)>>)}
        Duplicated == {<<t, u>> : t, u \in Repeated}
    IN  {s1 \o s2 : s1 \in {<<>>} \cup {<<t>> : t \in Types1},
                    s2 \in {<<>>} \cup {<<t>> : t \in Types2}}
            \cup Duplicated

InitMerge ==
    /\ InitLocker /\ InitCache /\ NewRerunner(0)
    /\ fpc = "call"
    /\ fcall \in [a : Schemas, b : Schemas, mode : {Union, Intersection}]
    /\ fret = <<>>

\* the call mergeSchemas(a, b, mode) returns
MergeSchemas ==
    /\ fpc = "call"
    /\ fret' = mergeSchemas(fcall.a, fcall.b, fcall.mode)
    /\ fpc' = "done"
    /\ UNCHANGED <<fcall, lockerVars, cacheVars, rrVars>>

SpecMerge == InitMerge /\ [][MergeSchemas]_vars

\* ---- parseSchema
\* a nil *introspectionTypeRef (a JSON null)
NilRef == TypeRef(<<>>, "nil", 0)
\* a run-time panic: the function does not return
Panic(what) == [panic |-> what]
Panicked(r) == "panic" \in DOMAIN r

\* the graphql.Type that stands for a named type: *graphql.Object, InputObject,
\* Scalar, Union or Enum by kind (schema.go:484-508), its members filled in by
\* the second pass; a reference to it is a TypeRef with its kind and name
Shell(k, n) ==
    [kind |-> k, name |-> n, Fields |-> <<>>, InputFields |-> <<>>, Types |-> {},
     Values |-> <<>>]

\* lookupTypeRef, schema.go:422-457
RECURSIVE lookupTypeRef(_, _)
lookupTypeRef(t, all) ==
    IF t = NilRef THEN Err("malformed typeref")
    ELSE IF Kind(t) \in NamedKinds
    THEN IF t.name \notin DOMAIN all
         THEN Err("type not found among top-level types")
         ELSE Ok(Named(all[t.name].kind, t.name))
    ELSE IF Kind(t) = "LIST"
    THEN LET inner == lookupTypeRef(OfType(t), all)
         IN  IF inner.err # "" THEN inner ELSE Ok(List(inner.val))
    ELSE IF Kind(t) = "NON_NULL"
    THEN LET inner == lookupTypeRef(OfType(t), all)
         IN  IF inner.err # "" THEN inner ELSE Ok(NonNull(inner.val))
    ELSE Err("unknown type kind")

\* parseInputFields, schema.go:459-473
RECURSIVE parseInputFieldsLoop(_, _, _)
parseInputFieldsLoop(source, all, fields) ==
    IF source = <<>> THEN Ok(fields)
    ELSE LET field == Head(source)
             here == lookupTypeRef(field.type, all)
         IN  IF here.err # "" THEN WrapErr("field has bad typ", here)
             ELSE parseInputFieldsLoop(Tail(source), all, (field.name :> here.val) @@ fields)
parseInputFields(source, all) == parseInputFieldsLoop(source, all, <<>>)

\* parseSchema's first loop, schema.go:478-512
RECURSIVE parseSchemaShells(_, _)
parseSchemaShells(types, all) ==
    IF types = <<>> THEN Ok(all)
    ELSE LET typ == Head(types)
         IN  IF typ.name \in DOMAIN all THEN Err("duplicate type")
             ELSE IF typ.kind \in NamedKinds
             THEN parseSchemaShells(Tail(types), (typ.name :> Shell(typ.kind, typ.name)) @@ all)
             ELSE Err("unknown type kind")

\* the loop over typ.Fields, schema.go:519-535
RECURSIVE parseSchemaFields(_, _, _)
parseSchemaFields(source, all, fields) ==
    IF source = <<>> THEN Ok(fields)
    ELSE LET field == Head(source)
             fieldTyp == lookupTypeRef(field.type, all)
             parsed == parseInputFields(field.args, all)
         IN  IF fieldTyp.err # "" THEN WrapErr("typ field has bad typ", fieldTyp)
             ELSE IF parsed.err # "" THEN WrapErr("field input", parsed)
             ELSE parseSchemaFields(Tail(source), all,
                      (field.name :> [Args |-> parsed.val, Type |-> fieldTyp.val]) @@ fields)

\* schema.go:553  typ, ok := all[other.Name].(*graphql.Object)
IsObject(all, name) == name \in DOMAIN all /\ all[name].kind = "OBJECT"

\* the loop over typ.PossibleTypes, schema.go:549-558. other.Kind of a nil other
\* is a nil dereference; when the assertion at 553 fails, the typ it declares is
\* a nil *graphql.Object and the typ.Name among the arguments of fmt.Errorf at
\* 555 is a nil dereference
RECURSIVE parseSchemaPossibleTypes(_, _, _)
parseSchemaPossibleTypes(source, all, types) ==
    IF source = <<>> THEN Ok(types)
    ELSE LET other == Head(source)
         IN  IF other = NilRef THEN Panic("nil dereference: other.Kind")
             ELSE IF Kind(other) # "OBJECT" THEN Err("typ has possible typ not OBJECT")
             ELSE IF ~IsObject(all, other.name) THEN Panic("nil dereference: typ.Name")
             ELSE parseSchemaPossibleTypes(Tail(source), all, types \cup {other.name})

\* the loop over typ.EnumValues, schema.go:568-571
EnumNames(source) == [i \in DOMAIN source |-> source[i].name]

\* parseSchema's second loop, schema.go:515-583
RECURSIVE parseSchemaMembers(_, _)
parseSchemaMembers(types, all) ==
    IF types = <<>> THEN Ok(all)
    ELSE LET typ == Head(types)
             rest == Tail(types)
         IN  CASE typ.kind = "OBJECT" ->
                    LET fields == parseSchemaFields(typ.fields, all, <<>>)
                    IN  IF fields.err # "" THEN fields
                        ELSE parseSchemaMembers(rest,
                                 [all EXCEPT ![typ.name].Fields = fields.val])
               [] typ.kind = "INPUT_OBJECT" ->
                    LET parsed == parseInputFields(typ.inputFields, all)
                    IN  IF parsed.err # "" THEN WrapErr("typ", parsed)
                        ELSE parseSchemaMembers(rest,
                                 [all EXCEPT ![typ.name].InputFields = parsed.val])
               [] typ.kind = "UNION" ->
                    LET possible == parseSchemaPossibleTypes(typ.possibleTypes, all, {})
                    IN  IF Panicked(possible) THEN possible
                        ELSE IF possible.err # "" THEN possible
                        ELSE parseSchemaMembers(rest,
                                 [all EXCEPT ![typ.name].Types = possible.val])
               [] typ.kind = "ENUM" ->
                    parseSchemaMembers(rest,
                        [all EXCEPT ![typ.name].Values = EnumNames(typ.enumValues)])
               [] typ.kind = "SCALAR" -> parseSchemaMembers(rest, all)
               [] OTHER -> Err("unknown type kind")

\* parseSchema, schema.go:475-586, on the schema's list of types
parseSchema(schema) ==
    LET shells == parseSchemaShells(schema, <<>>)
    IN  IF shells.err # "" THEN shells ELSE parseSchemaMembers(schema, shells.val)

\* ---- the calls of parseSchema (SpecParseSchema)
\* the schemas given to parseSchema: at most two types with names among 1 and
\* 2, of every kind and of none. ParseRefs are the references given in fields,
\* arguments and input fields: to the types 1 and 2, to a type 3 that no schema
\* has, wrapped, nil, with a nil OfType, and of a kind that is none.
\* ParsePossibleLists are the possible types given in unions: references of
\* kind OBJECT to the types 1, 2 and 3, a reference of another kind, a nil
\* reference
ParseSchemas ==
    LET ParseRefs ==
            {Named("SCALAR", 1), Named("OBJECT", 2), Named("SCALAR", 3),
             NonNull(List(Named("OBJECT", 3))), List(Named("ENUM", 1)), NilRef,
             List(NilRef), Named("INTERFACE", 1)}
        ParsePossibleLists ==
            {<<>>, <<Named("OBJECT", 1)>>, <<Named("OBJECT", 2)>>, <<Named("OBJECT", 3)>>,
             <<Named("OBJECT", 1), Named("OBJECT", 2)>>, <<Named("SCALAR", 1)>>,
             <<Named("INTERFACE", 2)>>, <<NilRef>>}
        ParseTypes(n) ==
            {Type(n, "OBJECT", <<>>, <<>>, <<>>, <<>>)}
                \cup {Type(n, "OBJECT", <<Field(1, t, <<>>)>>, <<>>, <<>>, <<>>) :
                         t \in ParseRefs}
                \cup {Type(n, "OBJECT", <<Field(1, IntType, <<InputField(1, t)>>)>>,
                              <<>>, <<>>, <<>>) : t \in ParseRefs}
                \cup {Type(n, "INPUT_OBJECT", <<>>, <<>>, <<>>, <<>>)}
                \cup {Type(n, "INPUT_OBJECT", <<>>, <<InputField(1, t)>>, <<>>, <<>>) :
                         t \in ParseRefs}
                \cup {Type(n, "UNION", <<>>, <<>>, l, <<>>) : l \in ParsePossibleLists}
                \cup {Type(n, "ENUM", <<>>, <<>>, <<>>, l) : l \in EnumLists}
                \cup {Type(n, "SCALAR", <<>>, <<>>, <<>>, <<>>),
                      Type(n, "INTERFACE", <<>>, <<>>, <<>>, <<>>)}
    IN  {<<>>} \cup {<<t>> : t \in ParseTypes(1) \cup ParseTypes(2)}
            \cup {<<t, u>> : t, u \in ParseTypes(1) \cup ParseTypes(2)}

InitParseSchema ==
    /\ InitLocker /\ InitCache /\ NewRerunner(0)
    /\ fpc = "call"
    /\ fcall \in [schema : ParseSchemas]
    /\ fret = <<>>

\* the call parseSchema(schema) returns, or panics
ParseSchema ==
    /\ fpc = "call"
    /\ fret' = parseSchema(fcall.schema)
    /\ fpc' = IF Panicked(fret') THEN "panic" ELSE "done"
    /\ UNCHANGED <<fcall, lockerVars, cacheVars, rrVars>>

SpecParseSchema == InitParseSchema /\ [][ParseSchema]_vars

\* ---- convertVersionedSchemas
\* mergeSchemaSlice, schema.go:404-417
RECURSIVE mergeSchemaSliceLoop(_, _, _)
mergeSchemaSliceLoop(merged, schemas, mode) ==
    IF schemas = <<>> THEN Ok(merged)
    ELSE LET m == mergeSchemas(merged, Head(schemas), mode)
         IN  IF m.err # "" THEN m ELSE mergeSchemaSliceLoop(m.val, Tail(schemas), mode)
mergeSchemaSlice(schemas, mode) ==
    IF Len(schemas) = 0 THEN Err("no schemas")
    ELSE mergeSchemaSliceLoop(schemas[1], Tail(schemas), mode)

\* schema.go:630  mergeSchemaSlice(versionSchemas, Intersection)
VersionsMode_Union == Union
VersionsMode == Intersection

\* F(v), with the result v of a call evaluated once
With(v, F(_)) == CHOOSE x \in {F(r) : r \in {v}} : TRUE

\* schema.go:617-630: the schemas of a service's versions, in the order of the
\* sorted version names, merged
mergeVersions(versions) ==
    LET versionNames == Sorted(DOMAIN versions)
    IN  mergeSchemaSlice([i \in 1..Len(versionNames) |-> versions[versionNames[i]]],
                         VersionsMode)

\* the loop over the sorted service names, schema.go:616-637, which fills
\* serviceSchemasByName
RECURSIVE convertServices(_, _, _)
convertServices(serviceNames, schemas, serviceSchemasByName) ==
    IF serviceNames = <<>> THEN Ok(serviceSchemasByName)
    ELSE With(mergeVersions(schemas[Head(serviceNames)]),
              LAMBDA serviceSchema :
                  IF serviceSchema.err # "" THEN serviceSchema
                  ELSE convertServices(Tail(serviceNames), schemas,
                           (Head(serviceNames) :> serviceSchema.val)
                               @@ serviceSchemasByName))

\* the *graphql.Field obj.Fields[field.Name] of type T, nil when obj has no such
\* field
FieldOf(types, T, F) == IF F \in DOMAIN types[T].Fields THEN <<T, F>> ELSE <<>>

\* schema.go:656-668, for the fields of one type of one service
RECURSIVE convertFields(_, _, _, _, _)
convertFields(fields, types, T, service, fieldInfos) ==
    IF fields = <<>> THEN fieldInfos
    ELSE LET f == FieldOf(types, T, Head(fields).name)
             info == IF f \in DOMAIN fieldInfos THEN fieldInfos[f]
                     ELSE [Service |-> service, Services |-> {}]
         IN  convertFields(Tail(fields), types, T, service,
                 (f :> [info EXCEPT !.Services = @ \cup {service}]) @@ fieldInfos)

\* schema.go:652-670, for the types of one service. The assertion
\* types[typ.Name].(*graphql.Object) at 654 panics when the merged schema has
\* that name with another kind
RECURSIVE convertTypes(_, _, _, _)
convertTypes(typs, types, service, fieldInfos) ==
    IF typs = <<>> THEN Ok(fieldInfos)
    ELSE LET typ == Head(typs)
         IN  IF typ.kind # "OBJECT" THEN convertTypes(Tail(typs), types, service, fieldInfos)
             ELSE IF ~IsObject(types, typ.name) THEN Panic("type assertion: *graphql.Object")
             ELSE convertTypes(Tail(typs), types, service,
                      convertFields(typ.fields, types, typ.name, service, fieldInfos))

\* schema.go:650-671, the loop over the sorted service names
RECURSIVE convertFieldInfos(_, _, _, _)
convertFieldInfos(serviceNames, serviceSchemasByName, types, fieldInfos) ==
    IF serviceNames = <<>> THEN Ok(fieldInfos)
    ELSE With(convertTypes(serviceSchemasByName[Head(serviceNames)], types,
                           Head(serviceNames), fieldInfos),
              LAMBDA infos :
                  IF Panicked(infos) THEN infos
                  ELSE convertFieldInfos(Tail(serviceNames), serviceSchemasByName, types,
                                         infos.val))

\* schema.go:640-679: the union of the services' schemas, its types and the
\* fieldInfos. Types is the map of parsed types that the returned Schema's
\* Query and Mutation are taken from
convertMerged(serviceNames, byName) ==
    With(mergeSchemaSlice([i \in 1..Len(serviceNames) |-> byName[serviceNames[i]]], Union),
         LAMBDA merged :
             IF merged.err # "" THEN merged
             ELSE With(parseSchema(merged.val),
                       LAMBDA types :
                           IF Panicked(types) THEN types
                           ELSE IF types.err # "" THEN types
                           ELSE With(convertFieldInfos(serviceNames, byName, types.val, <<>>),
                                     LAMBDA fieldInfos :
                                         IF Panicked(fieldInfos) THEN fieldInfos
                                         ELSE Ok([Types |-> types.val,
                                                  Fields |-> fieldInfos.val]))))

\* convertVersionedSchemas, schema.go:606-680
convertVersionedSchemas(schemas) ==
    With(convertServices(Sorted(DOMAIN schemas), schemas, <<>>),
         LAMBDA byName :
             IF byName.err # "" THEN byName
             ELSE convertMerged(Sorted(DOMAIN schemas), byName.val))

\* ---- the calls of convertVersionedSchemas (SpecConvert)
\* the services and the versions of a service
Services == {1, 2}
Versions == {1, 2}
\* serviceSchemas, schema.go:589: from service name and version to schema; a
\* service has no version, version 1, or versions 1 and 2. In the schema of a
\* version type 1 is absent, an OBJECT with fields among 1 and 2, or an ENUM, one
\* schema also has an OBJECT type 2 with field 1, and three list type 1 twice;
\* the type of a field is the type it is a field of
ServiceSchemas ==
    LET SelfField(n, f) == Field(f, Named("OBJECT", n), <<>>)
        Enum1 == Type(1, "ENUM", <<>>, <<>>, <<>>, <<EnumValue(1)>>)
        Object1 == Type(1, "OBJECT", <<SelfField(1, 1)>>, <<>>, <<>>, <<>>)
        Object2 == Type(2, "OBJECT", <<SelfField(2, 1)>>, <<>>, <<>>, <<>>)
        VersionSchemas ==
            {<<>>, <<Enum1>>, <<Object1, Object2>>}
                \cup {<<Type(1, "OBJECT", l, <<>>, <<>>, <<>>)>> :
                         l \in {<<>>, <<SelfField(1, 1)>>, <<SelfField(1, 2)>>,
                                <<SelfField(1, 1), SelfField(1, 2)>>}}
                \cup {<<Object1, Object1>>, <<Object1, Enum1>>, <<Enum1, Enum1>>}
        ServiceVersions ==
            {<<>>} \cup [{1} -> VersionSchemas] \cup [Versions -> VersionSchemas]
    IN  {<<>>} \cup [{1} -> ServiceVersions] \cup [{2} -> ServiceVersions]
            \cup [Services -> ServiceVersions]

InitConvert ==
    /\ InitLocker /\ InitCache /\ NewRerunner(0)
    /\ fpc = "call"
    /\ fcall \in [schemas : ServiceSchemas]
    /\ fret = <<>>

\* the call convertVersionedSchemas(schemas) returns, or panics
ConvertVersionedSchemas ==
    /\ fpc = "call"
    /\ fret' = convertVersionedSchemas(fcall.schemas)
    /\ fpc' = IF Panicked(fret') THEN "panic" ELSE "done"
    /\ UNCHANGED <<fcall, lockerVars, cacheVars, rrVars>>

SpecConvert == InitConvert /\ [][ConvertVersionedSchemas]_vars

\* ================================================================== claims

\* ---- keyed lock table (SpecLocker)
\* goroutine g holds key k: Lock(k) has returned to it and it has not yet
\* unlocked the key's mutex in Unlock(k)
HeldPcs == {"locked", "C_hit", "C_run", "C_f", "C_set", "C_add", "U_mu", "U_get"}
Holders(k) == {g \in Procs : gkey[g] = k /\ pc[g] \in HeldPcs}
\* goroutine g is counted in the refcount of k: it waits for or holds k
Users(k) == {g \in Procs : gkey[g] = k /\ pc[g] \in (HeldPcs \cup {"L_lock"})}

\* C1: within one top-level run, for a key k whose inner function g does not fail,
\* g is executed at most once by Cache; any two callers that have returned from
\* Cache(ctx, k, g) got the same value, g ran exactly once, and both callers'
\* computation nodes are in the out set of the one cached child computation.
Runs(k) == {c \in ChildIds : comp[c].state # "unused" /\ comp[c].key = k}
Returned(g, k) == gret[g].st = "ok" /\ gret[g].key = k /\ gret[g].ctx # 0
C1_SingleFlight ==
    \A k \in Keys :
        (\A c \in Runs(k) : comp[c].state # "failed") =>
            /\ Cardinality(Runs(k)) <= 1
            /\ \A g1, g2 \in Callers :
                   (Returned(g1, k) /\ Returned(g2, k)) =>
                       /\ Cardinality(Runs(k)) = 1
                       /\ gret[g1].value = gret[g2].value
                       /\ computations[k] \in Runs(k)
                       /\ {gret[g1].ctx, gret[g2].ctx} \subseteq cout[computations[k]]

\* two callers with different computations have both returned a value for one key
C1_Witness ==
    \E k \in Keys : \E g1, g2 \in Callers :
        /\ g1 # g2
        /\ Returned(g1, k) /\ Returned(g2, k)
        /\ gret[g1].ctx # gret[g2].ctx

\* C2: for every key k, at most one goroutine is between the return of Lock(k) and
\* the release of the key in its matching Unlock(k).
C2_MutualExclusion == \A k \in Keys : Cardinality(Holders(k)) <= 1

\* one goroutine holds a key while another, counted in the same entry, waits for it
C2_Witness ==
    \E k \in Keys : \E g1, g2 \in Procs :
        /\ g1 \in Holders(k)
        /\ gkey[g2] = k /\ pc[g2] = "L_lock"
        /\ lref[lm[k]] = 2

\* C3: whenever the table mutex is free, the table has an entry for k iff some
\* goroutine holds or waits for k, the entry's refcount is the number of those
\* goroutines (so it is > 0), and with every Lock matched by an Unlock the table
\* is empty.
C3_TableInvariant ==
    lmu = 0 =>
        \A k \in Keys :
            /\ lm[k] # 0 <=> Users(k) # {}
            /\ lm[k] # 0 => lref[lm[k]] = Cardinality(Users(k))

\* the table mutex is free and an entry is shared by a holder and a waiter
C3_Witness ==
    /\ lmu = 0
    /\ \E k \in Keys : lm[k] # 0 /\ lref[lm[k]] >= 2 /\ Cardinality(Users(k)) >= 2

\* ---- Rerunner (SpecRerunner)
\* the computation of activation c was installed as r.computation
Installed(c) == run[c].outcome = "ok" /\ run[c].pc \in {"ok_handle", "unlock", "done"}
\* the activations of run() that computation c's invalidation handler started
HandlerRuns(c) == {b \in RunIds : run[b].by = "handler" /\ run[b].of = c}
\* the activations of run() that activation a started at rerunner.go:271
RetryRuns(a) == {b \in RunIds : run[b].by = "retry" /\ run[b].of = a}
\* nothing is in progress: no pending invalidation, no activation of run() or
\* call of Stop() under way
Quiescent ==
    /\ resTasks = {} /\ compTasks = {}
    /\ \A a \in RunIds : run[a].pc \in {"unused", "done"}
    /\ \A s \in Stoppers : spc[s] \in {"idle", "returned"}
StopReturned == \E s \in Stoppers : spc[s] = "returned"

\* C4: at most one activation of run() is inside f, and an activation inside f
\* holds the Rerunner's mutex.
C4_SerializedRuns ==
    /\ Cardinality({a \in RunIds : run[a].pc = "f"}) <= 1
    /\ \A a \in RunIds : run[a].pc = "f" => rmu = a

\* a re-run started by an invalidation is inside f while a call of Stop waits for
\* the mutex
C4_Witness ==
    \E a \in RunIds : \E s \in Stoppers :
        run[a].pc = "f" /\ run[a].by = "handler" /\ spc[s] = "lock"

\* C5: the invalidation handler of a computation starts run() at most once; when
\* nothing is in progress any more and Stop was not called, every successful
\* computation that added a dependency on an invalidated Resource has had exactly
\* one activation started by its handler and that activation has invoked f; and
\* such an activation enters f only when at least minRerunInterval has passed
\* since the previous run finished.
C5_DependencyRerun ==
    /\ [](\A c \in RunIds : Cardinality(HandlerRuns(c)) <= 1)
    /\ []((Quiescent /\ ~cancelled) =>
            \A c \in RunIds :
                (run[c].outcome = "ok" /\ \E r \in resInvalidated : c \in out[r]) =>
                    \E b \in HandlerRuns(c) : run[b].outcome # "none")
    /\ [][\A b \in RunIds :
            (run[b].by = "handler" /\ run[b].pc = "check" /\ run'[b].pc = "f") =>
                sinceLastRun >= minRerunInterval]_vars

\* a re-run started by the handler of a computation whose Resource was invalidated
\* has invoked f, with a positive minimum interval
C5_Witness ==
    /\ minRerunInterval > 0
    /\ \E b \in RunIds :
        /\ run[b].by = "handler" /\ run[b].outcome # "none"
        /\ \E r \in resInvalidated : run[b].of \in out[r]

\* C6: retryDelay starts at minRerunInterval; the retry branch sets it to
\* min(2 * retryDelay, Minute), which is at most Minute; the success branch sets
\* it to minRerunInterval; nothing else changes it.
C6_RetryBackoff ==
    /\ retryDelay = minRerunInterval
    /\ [][/\ \A a \in RunIds :
               (run[a].pc = "retry" /\ run'[a].pc # "retry") =>
                   retryDelay' = Min(2 * retryDelay, Minute) /\ retryDelay' <= Minute
          /\ \A a \in RunIds :
               (run[a].pc = "ok_install" /\ run'[a].pc # "ok_install") =>
                   retryDelay' = minRerunInterval
          /\ (\A a \in RunIds : run[a].pc \in {"retry", "ok_install"} => run'[a].pc = run[a].pc) =>
                   retryDelay' = retryDelay]_vars

\* from 20 the delay has doubled to 40 and then been capped at 60
C6_Witness ==
    /\ minRerunInterval = 20
    /\ retryDelay = Minute
    /\ Cardinality({a \in RunIds : run[a].outcome = "retry" /\ run[a].pc = "done"}) = 2

\* C7: once a call of Stop has returned, no activation is or comes to be inside f,
\* the stop flag is set, r.computation is nil and stays nil, every computation
\* that was installed has had release requested exactly once, and nothing (a later
\* Stop included) changes stop, r.computation, retryDelay or the release requests.
C7_Stop ==
    /\ [](StopReturned =>
            /\ stop /\ cancelled /\ computation = 0
            /\ \A a \in RunIds : run[a].pc # "f"
            /\ \A c \in RunIds : Installed(c) => release[c] = 1)
    /\ [][StopReturned =>
            /\ \A a \in RunIds : run'[a].pc # "f"
            /\ UNCHANGED <<stop, cancelled, computation, retryDelay, release>>]_vars

\* every call of Stop has returned, the installed computation was released, and a
\* re-run that was pending ended without invoking f
C7_Witness ==
    /\ \A s \in Stoppers : spc[s] = "returned"
    /\ \E c \in RunIds : Installed(c) /\ release[c] = 1
    /\ \E b \in RunIds : run[b].pc = "done" /\ run[b].outcome = "none"

\* C8: when a run of f has returned an error other than RetrySentinelError and
\* run() has returned, no later activation has invoked f, r.computation is nil and
\* every installed computation has had release requested.
C8_FatalStops ==
    \A a \in RunIds :
        (run[a].outcome = "fatal" /\ run[a].pc = "done") =>
            /\ \A b \in RunIds : b > a => run[b].outcome = "none" /\ run[b].pc # "f"
            /\ computation = 0
            /\ \A c \in RunIds : Installed(c) => release[c] >= 1

\* C9: from the moment f has returned RetrySentinelError until run() returns, no
\* step changes r.computation or r.stop or requests release of any node but the
\* failed attempt's own; r.computation, if any, has not been released; the failed
\* attempt's node has release requested once; and by the time run() returns the
\* activation has started exactly one further run().
RetryWindow(a) == run[a].outcome = "retry" /\ run[a].pc # "done"
C9_RetryKeepsPrior ==
    /\ [](\A a \in RunIds :
            /\ RetryWindow(a) => (computation # 0 => release[computation] = 0)
            /\ (run[a].outcome = "retry" /\ run[a].pc \in {"retry", "respawn"}) =>
                   release[a] = 1 /\ RetryRuns(a) = {}
            /\ (run[a].outcome = "retry" /\ run[a].pc \in {"unlock", "done"}) =>
                   release[a] = 1 /\ Cardinality(RetryRuns(a)) = 1)
    /\ [][\A a \in RunIds :
            RetryWindow(a) =>
                /\ UNCHANGED <<computation, stop>>
                /\ \A c \in RunIds \ {a} : release'[c] = release[c]]_vars

\* a re-run returned the retry sentinel while an earlier computation was installed,
\* and that computation is still current after run() returned
C9_Witness ==
    \E a \in RunIds :
        /\ run[a].outcome = "retry" /\ run[a].pc = "done"
        /\ computation # 0 /\ computation < a /\ release[computation] = 0

\* C10: no computation's node has release requested twice, and once the Rerunner's
\* lifetime has ended (a call of Stop has returned, or run() has returned after a
\* fatal error) every computation record created has had release requested once.
C10_ReleasedExactlyOnce ==
    /\ \A c \in RunIds : release[c] <= 1
    /\ (StopReturned \/ \E a \in RunIds : run[a].outcome = "fatal" /\ run[a].pc = "done") =>
           \A c \in RunIds : run[c].outcome # "none" => release[c] = 1

\* a computation that was installed has had release requested by a later
\* successful run (Stop has not set the stop flag, so not by Stop)
Superseded(c) == run[c].outcome = "ok" /\ release[c] > 0 /\ ~stop
\* the Rerunner has a current computation whose invalidation handler is registered
Wired == computation # 0 /\ handler[computation] # "none"

\* C11 (as claimed): in no reachable state has the release of an old computation
\* been requested by a successful run while the Rerunner has no installed
\* computation with a registered invalidation handler.
C11_InstallBeforeRelease == \A c \in RunIds : Superseded(c) => Wired

\* C11 (amended): the release of the old computation is requested before the new
\* one is stored and wired, in the same critical section: whenever an old
\* computation's release has been requested and no wired computation is
\* installed, the mutex is held by the successful run that is about to store the
\* new computation or register its handler; when that run gives up the mutex the
\* new computation is current and wired.
C11_ReleaseInsideLock ==
    /\ \A c \in RunIds :
           Superseded(c) =>
               \/ Wired
               \/ \E a \in RunIds : rmu = a /\ run[a].pc \in {"ok_install", "ok_handle"}
    /\ \A a \in RunIds :
           (run[a].outcome = "ok" /\ run[a].pc = "unlock") =>
               computation = a /\ handler[a] # "none"

\* a successful re-run has released the computation before it, installed and
\* wired its own, and is about to give up the mutex
C11_Witness ==
    \E a \in RunIds : \E c \in RunIds :
        /\ c # a /\ Superseded(c)
        /\ run[a].outcome = "ok" /\ run[a].pc = "unlock"
        /\ computation = a

\* ---- Cache across re-runs (SpecMemo)
\* activation a passes from the stop check into f: the step that calls
\* cache.cleanInvalidated()
EntersF(a) == run[a].pc = "check" /\ run'[a].pc = "f"

\* C12: the step by which a top-level run enters f, and no other step, removes
\* entries from the cache, and it removes exactly the entries whose node is
\* invalidated; a Cache call executes g iff cache.get finds no entry for its
\* key, and only then is g executed; so a key none of whose sub-computations
\* failed or was invalidated has had g executed at most once, over all re-runs.
C12_CacheSurvival ==
    /\ [][/\ \A a \in RunIds :
               EntersF(a) =>
                   \A k \in Keys :
                       computations'[k] =
                           IF computations[k] # 0 /\ computations[k] \in cinvalidated
                           THEN 0 ELSE computations[k]
          /\ (\E k \in Keys : computations[k] # 0 /\ computations'[k] # computations[k]) =>
                   \E a \in RunIds : EntersF(a)
          /\ \A g \in MemoCallers :
               (pc[g] = "locked" /\ pc'[g] # "locked") =>
                   (pc'[g] = "C_run" <=> computations[gkey[g]] = 0)
          /\ \A k \in Keys :
               execCount'[k] # execCount[k] =>
                   /\ computations[k] = 0
                   /\ execCount'[k] = execCount[k] + 1
                   /\ \E g \in MemoCallers : gkey[g] = k /\ pc[g] = "C_run"]_vars
    /\ [](\A k \in Keys :
            (\A c \in Runs(k) : comp[c].state # "failed" /\ c \notin cinvalidated) =>
                execCount[k] <= 1)

\* a re-run's Cache call has returned the value of a sub-computation that an
\* earlier run created and that survived the re-run's clean-up
C12_Witness ==
    \E g \in MemoCallers : \E c \in ChildIds :
        /\ gret[g].st = "ok" /\ gret[g].ctx >= 2
        /\ computations[gret[g].key] = c
        /\ c \notin cinvalidated
        /\ execCount[gret[g].key] = 1
        /\ \E a \in cout[c] : a < gret[g].ctx

\* ---- Resource.Cleanup (SpecCleanup)
\* the computations depending on Resource r whose node is not released
LiveDependents(r) == out[r] \ released

Strip(t) == [t EXCEPT !.wrap = SelectSeq(@, LAMBDA w : w = "LIST")]
\* the number of LIST wrappers of t: its nesting levels are 0..Depth(t)
Depth(t) == Len(Strip(t).wrap)
\* t has a NON_NULL wrapper at nesting level i (inside exactly i LIST wrappers)
NonNullAt(t, i) ==
    \E j \in 1..Len(t.wrap) :
        /\ t.wrap[j] = "NON_NULL"
        /\ Cardinality({k \in 1..(j - 1) : t.wrap[k] = "LIST"}) = i
\* a and b are the same besides NON_NULL wrappers, and of a known kind
Compatible(a, b) == Strip(a) = Strip(b) /\ a.kind \in NamedKinds

\* C14: for compatible a and b mergeTypeRefs succeeds; at every nesting level
\* the result is NON_NULL iff a or b is (isInput = true), respectively iff both
\* a and b are (isInput = false); and without its NON_NULL wrappers the result
\* is a, and b, without theirs.
C14_MergeNullability ==
    (fpc = "done" /\ Compatible(fcall.a, fcall.b)) =>
        /\ fret.err = ""
        /\ Strip(fret.val) = Strip(fcall.a)
        /\ \A i \in 0..Depth(fcall.a) :
               NonNullAt(fret.val, i) <=>
                   IF fcall.isInput
                   THEN NonNullAt(fcall.a, i) \/ NonNullAt(fcall.b, i)
                   ELSE NonNullAt(fcall.a, i) /\ NonNullAt(fcall.b, i)

\* an input merge made the element type of a list NON_NULL because only one
\* side had it NON_NULL
C14_Witness ==
    /\ fpc = "done" /\ Compatible(fcall.a, fcall.b) /\ fcall.isInput
    /\ NonNullAt(fcall.a, 1) /\ ~NonNullAt(fcall.b, 1) /\ ~NonNullAt(fcall.a, 0)
    /\ NonNullAt(fret.val, 1) /\ ~NonNullAt(fret.val, 0)

\* ---- mergeSchemas (SpecMerge)
\* the names of the entries of list l
Names(l) == {l[i].name : i \in DOMAIN l}
\* the entry of list l with name n
Find(l, n) == l[CHOOSE i \in DOMAIN l : l[i].name = n]
\* every field, argument, input field, enum value and possible type of type t is,
\* by name, one of type u
MembersWithin(t, u) ==
    /\ Names(t.fields) \subseteq Names(u.fields)
    /\ \A i \in DOMAIN t.fields :
           Names(t.fields[i].args) \subseteq Names(Find(u.fields, t.fields[i].name).args)
    /\ Names(t.inputFields) \subseteq Names(u.inputFields)
    /\ Names(t.enumValues) \subseteq Names(u.enumValues)
    /\ Names(t.possibleTypes) \subseteq Names(u.possibleTypes)

\* in list l a name occurs once
UniqueNames(l) == \A i, j \in DOMAIN l : l[i].name = l[j].name => i = j
\* in schema s every list names each of its entries once
UniquelyNamed(s) ==
    /\ UniqueNames(s)
    /\ \A i \in DOMAIN s :
           /\ UniqueNames(s[i].fields) /\ UniqueNames(s[i].inputFields)
           /\ UniqueNames(s[i].enumValues) /\ UniqueNames(s[i].possibleTypes)
           /\ \A j \in DOMAIN s[i].fields : UniqueNames(s[i].fields[j].args)
\* the subset property of an Intersection merge
IntersectionSubset ==
    \A i \in DOMAIN fret.val :
        /\ fret.val[i].name \in Names(fcall.a) \cap Names(fcall.b)
        /\ MembersWithin(fret.val[i], Find(fcall.a, fret.val[i].name))
        /\ MembersWithin(fret.val[i], Find(fcall.b, fret.val[i].name))

\* C15: when mergeSchemas(a, b, Intersection) succeeds, every type of the result
\* is by name a type of a and of b, and every field, argument, input field, enum
\* value and possible type of it is by name one of that type in a and in b.
C15_IntersectionSubset ==
    (fpc = "done" /\ fcall.mode = Intersection /\ fret.err = "") => IntersectionSubset

\* the same for schemas whose lists name each entry once
C15_UniquelyNamed ==
    (/\ fpc = "done" /\ fcall.mode = Intersection /\ fret.err = ""
     /\ UniquelyNamed(fcall.a) /\ UniquelyNamed(fcall.b)) => IntersectionSubset

\* an Intersection merge kept a field and an argument that both sides have and
\* dropped a field and a type that only one side has
C15_Witness ==
    /\ fpc = "done" /\ fcall.mode = Intersection /\ fret.err = ""
    /\ Len(fcall.a) = 2 /\ Len(fcall.b) = 1 /\ Len(fret.val) = 1
    /\ Len(fcall.a[1].fields) = 2 /\ Len(fret.val[1].fields) = 1
    /\ Len(fret.val[1].fields[1].args) = 1

\* the result of the merge with the two schemas exchanged
Exchanged == mergeSchemas(fcall.b, fcall.a, fcall.mode)
\* both merges fail, or both succeed with the same list of types
Commutes ==
    /\ (fret.err = "") <=> (Exchanged.err = "")
    /\ fret.err = "" => fret.val = Exchanged.val

\* C19: mergeSchemas(a, b, mode) fails iff mergeSchemas(b, a, mode) fails, and
\* when they succeed the two results list the same type names in the same order
\* with, per type, the same kind and the same fields, arguments, input fields,
\* enum values and possible types with the same type references.
C19_MergeCommutes == fpc = "done" => Commutes

\* the same for schemas whose lists name each entry once
C19_UniquelyNamed ==
    (fpc = "done" /\ UniquelyNamed(fcall.a) /\ UniquelyNamed(fcall.b)) => Commutes

\* two different schemas whose lists name each entry once were merged, in a
\* result that is neither of them
C19_Witness ==
    /\ fpc = "done" /\ fret.err = ""
    /\ UniquelyNamed(fcall.a) /\ UniquelyNamed(fcall.b)
    /\ fret.val # fcall.a /\ fret.val # fcall.b /\ fret.val # <<>>
    /\ \E i \in DOMAIN fret.val : fret.val[i].fields # <<>>

\* the superset property of a Union merge
UnionSuperset ==
    \A s \in {fcall.a, fcall.b} : \A i \in DOMAIN s :
        /\ s[i].name \in Names(fret.val)
        /\ MembersWithin(s[i], Find(fret.val, s[i].name))

\* C20: when mergeSchemas(a, b, Union) succeeds, every type name of a or b, and
\* within each type every field, argument, input field, enum value and possible
\* type name of a or b, is present in the result.
C20_UnionSuperset ==
    (fpc = "done" /\ fcall.mode = Union /\ fret.err = "") => UnionSuperset

\* the same for schemas whose lists name each entry once
C20_UniquelyNamed ==
    (/\ fpc = "done" /\ fcall.mode = Union /\ fret.err = ""
     /\ UniquelyNamed(fcall.a) /\ UniquelyNamed(fcall.b)) => UnionSuperset

\* a Union merge of two schemas that each have a type and a field the other
\* lacks
C20_Witness ==
    /\ fpc = "done" /\ fcall.mode = Union /\ fret.err = ""
    /\ UniquelyNamed(fcall.a) /\ UniquelyNamed(fcall.b)
    /\ Len(fret.val) = 2 /\ Len(fcall.a) = 1 /\ Len(fcall.b) = 2
    /\ Len(fret.val[1].fields) = 2
    /\ Len(fcall.a[1].fields) = 1 /\ Len(fcall.b[1].fields) = 1

\* ---- parseSchema (SpecParseSchema)
\* C17: for every introspection schema, parseSchema returns a type map or an
\* error value and never panics.
C17_NeverPanics == fpc # "panic"

\* a type of the schema is of kind UNION and has a possible type of kind OBJECT
\* whose name is not that of an OBJECT type of the schema
UnionOfNonObject(schema) ==
    \E i \in DOMAIN schema :
        /\ schema[i].kind = "UNION"
        /\ \E j \in DOMAIN schema[i].possibleTypes :
               LET other == schema[i].possibleTypes[j]
               IN  /\ other # NilRef /\ Kind(other) = "OBJECT"
                   /\ \A k \in DOMAIN schema :
                          schema[k].name = other.name => schema[k].kind # "OBJECT"
\* a possible type is a nil reference
UnionOfNil(schema) ==
    \E i \in DOMAIN schema :
        schema[i].kind = "UNION" /\ \E j \in DOMAIN schema[i].possibleTypes :
            schema[i].possibleTypes[j] = NilRef

\* reference t names a type of the schema
Resolvable(t, schema) == t.kind \in NamedKinds /\ t.name \in Names(schema)
\* every reference of a field, an argument or an input field names a type of the
\* schema, and every possible type is of kind OBJECT
References(schema) ==
    \A i \in DOMAIN schema :
        /\ \A j \in DOMAIN schema[i].fields :
               \/ schema[i].kind # "OBJECT"
               \/ /\ Resolvable(schema[i].fields[j].type, schema)
                  /\ \A k \in DOMAIN schema[i].fields[j].args :
                         Resolvable(schema[i].fields[j].args[k].type, schema)
        /\ \A j \in DOMAIN schema[i].inputFields :
               \/ schema[i].kind # "INPUT_OBJECT"
               \/ Resolvable(schema[i].inputFields[j].type, schema)
        /\ \A j \in DOMAIN schema[i].possibleTypes :
               schema[i].kind # "UNION" \/ Kind(schema[i].possibleTypes[j]) = "OBJECT"

\* parseSchema panics only on such a union, and returns an error or a type map
\* with every name of the schema otherwise
C17_PanicsOnlyOnUnions ==
    /\ fpc = "panic" => UnionOfNonObject(fcall.schema) \/ UnionOfNil(fcall.schema)
    /\ (fpc = "done" /\ fret.err = "") =>
           /\ DOMAIN fret.val = Names(fcall.schema)
           /\ UniqueNames(fcall.schema)
           /\ \A i \in DOMAIN fcall.schema : fcall.schema[i].kind \in NamedKinds
           /\ ~UnionOfNonObject(fcall.schema) /\ ~UnionOfNil(fcall.schema)
           /\ References(fcall.schema)

\* ---- convertVersionedSchemas (SpecConvert)
\* schema s has an OBJECT type T with a field F
Exposes(s, T, F) ==
    \E i \in DOMAIN s :
        /\ s[i].name = T /\ s[i].kind = "OBJECT"
        /\ \E j \in DOMAIN s[i].fields : s[i].fields[j].name = F
\* the services every version of which exposes T.F
Exposing(T, F) ==
    {s \in DOMAIN fcall.schemas :
        \A v \in DOMAIN fcall.schemas[s] : Exposes(fcall.schemas[s][v], T, F)}
\* Services and Service of every field of every OBJECT type of the merged schema
Provenance ==
    \A T \in DOMAIN fret.val.Types :
        fret.val.Types[T].kind = "OBJECT" =>
            \A F \in DOMAIN fret.val.Types[T].Fields :
                /\ <<T, F>> \in DOMAIN fret.val.Fields
                /\ fret.val.Fields[<<T, F>>].Services = Exposing(T, F)
                /\ fret.val.Fields[<<T, F>>].Service \in Exposing(T, F)
                /\ \A s \in Exposing(T, F) : fret.val.Fields[<<T, F>>].Service <= s
\* every version's schema names each entry of each list once
VersionsUniquelyNamed ==
    \A s \in DOMAIN fcall.schemas :
        \A v \in DOMAIN fcall.schemas[s] : UniquelyNamed(fcall.schemas[s][v])

\* C18: in the result of convertVersionedSchemas, for every field F of every
\* OBJECT type T of the merged schema, Fields[F].Services is exactly the set of
\* the services every version of which exposes T.F, and Fields[F].Service is the
\* smallest member of that set.
C18_FieldProvenance == (fpc = "done" /\ fret.err = "") => Provenance

\* the same for schemas whose lists name each entry once, which never panic
C18_UniquelyNamed ==
    VersionsUniquelyNamed =>
        /\ fpc # "panic"
        /\ (fpc = "done" /\ fret.err = "") => Provenance

\* two services with two versions each: field 1 of type 1 is in every version
\* of both, field 2 is in every version of service 2 and in one of service 1
C18_Witness ==
    /\ fpc = "done" /\ fret.err = "" /\ VersionsUniquelyNamed
    /\ DOMAIN fcall.schemas = Services
    /\ \A s \in Services : DOMAIN fcall.schemas[s] = Versions
    /\ <<1, 1>> \in DOMAIN fret.val.Fields /\ <<1, 2>> \in DOMAIN fret.val.Fields
    /\ fret.val.Fields[<<1, 1>>].Services = {1, 2}
    /\ fret.val.Fields[<<1, 1>>].Service = 1
    /\ fret.val.Fields[<<1, 2>>].Services = {2}
    /\ fret.val.Fields[<<1, 2>>].Service = 2
    /\ Exposes(fcall.schemas[1][1], 1, 2) /\ ~Exposes(fcall.schemas[1][2], 1, 2)

\* ---- mergeInputFields (SpecInputFields)
\* the names that occur in only one of the lists a and b
OneSided(a, b) == {n \in NamesOf(a, b) : Len(Occurrences(a, b, n)) = 1}
\* the names that occur on one side only, with a NON_NULL type
NewRequired(a, b) == {n \in OneSided(a, b) : Kind(Occurrences(a, b, n)[1].type) = "NON_NULL"}
\* the names that occur on both sides with types that are not compatible
Clashing(a, b) ==
    {n \in NamesOf(a, b) \ OneSided(a, b) :
        ~Compatible(Occurrences(a, b, n)[1].type, Occurrences(a, b, n)[2].type)}
\* in a successful merge a nullable input field of one side only is kept, as it
\* is, in Union mode and dropped in Intersection mode
SingleNullableKept ==
    fret.err = "" =>
        \A n \in OneSided(fcall.a, fcall.b) :
            IF fcall.mode = Union
            THEN \E i \in DOMAIN fret.val : fret.val[i] = Occurrences(fcall.a, fcall.b, n)[1]
            ELSE n \notin Names(fret.val)

Active == {a \in RunIds : run[a].pc \notin {"unused", "done"}}
\* the activations that have neither returned nor reached the deferred Unlock
\* that ends run(), after which an activation starts and registers nothing
BeforeReturn == {a \in Active : run[a].pc # "unlock"}
\* the computations whose invalidation handler is registered and has not fired
Armed == {c \in RunIds : handler[c] = "armed"}

\* C21: in every reachable state the number of activations of run() that are
\* waiting or executing plus the number of armed invalidation handlers is at
\* most 1.
C21_AtMostOnePending == Cardinality(Active) + Cardinality(Armed) <= 1

\* C21 as amended: the activations that have not yet reached their final Unlock
\* plus the armed handlers are at most 1; with the activation that has started
\* or registered its successor and is returning they are at most 2.
C21_AtMostOneBeforeReturn ==
    /\ Cardinality(BeforeReturn) + Cardinality(Armed) <= 1
    /\ Cardinality(Active) + Cardinality(Armed) <= 2

\* after a retry and an invalidation a later activation is computing, started by
\* a handler, while the activation before it has not returned yet
C21_Witness ==
    \E a, b, c \in RunIds :
        /\ a < b /\ b < c
        /\ run[b].by = "retry" /\ run[c].by = "handler"
        /\ run[c].pc = "wait" /\ run[c].of \in Active
        /\ Cardinality(Active) = 2


\* ---- Rerunner: the retry delay (SpecRerunner)
\* C22: in every reachable state, for every minRerunInterval >= 0 (values above
\* a minute included), retryDelay >= minRerunInterval.
C22_RetryDelayLowerBound == retryDelay >= minRerunInterval

\* the same for a minRerunInterval of at most a minute
C22_UpToAMinute == minRerunInterval <= Minute => retryDelay >= minRerunInterval

\* a retry has backed off a Rerunner whose minRerunInterval is positive and at
\* most a minute, and the next activation waits
C22_Witness ==
    /\ minRerunInterval > 0 /\ minRerunInterval <= Minute
    /\ retryDelay > minRerunInterval
    /\ \E a \in RunIds : run[a].by = "retry" /\ run[a].pc = "wait" /\ run[a].timer > 0

\* ---- Cache: a failing inner function (SpecCache)
\* the deferred Unlock(key) of a Cache call has unlocked the key's mutex, or the
\* call has returned
PastKeyRelease == {"U_ref", "U_del", "U_unmu", "idle"}
\* goroutine g's last Cache call, made with a Rerunner, ran the inner function
\* and is returning (or has returned) its error
ReturnsError(g) == gret[g].st = "err" /\ gret[g].ctx # 0

\* C23: when Cache(ctx, k, g) runs g and g returns an error, the error is returned
\* to the caller, no entry for k is added to the cache, release of the failed
\* child computation's node is requested, the caller's node is not added to its
\* out set, and the key lock for k is released by the deferred Unlock; while every
\* execution of g for k so far has failed the cache has no entry for k, so the
\* next call that gets the key lock misses and executes g again, and a cache hit
\* never yields a failed computation.
C23_FailureLeavesNoEntry ==
    /\ \A c \in ChildIds :
           comp[c].state = "failed" =>
               /\ \A k \in Keys : computations[k] # c
               /\ cout[c] = {}
               /\ comp[c].rel = 1
               /\ \A g \in Callers : gchild[g] # c
    /\ \A k \in Keys :
           (\A c \in Runs(k) : comp[c].state = "failed") => computations[k] = 0
    /\ \A g \in Callers :
           /\ pc[g] = "C_hit" => comp[gchild[g]].state = "ok"
           /\ ReturnsError(g) =>
                  /\ pc[g] \in {"U_mu", "U_get"} \cup PastKeyRelease
                  /\ gret[g].value = 0
                  /\ pc[g] \in PastKeyRelease => \A l \in LockIds : lkmu[l] # g
                  /\ pc[g] = "idle" => gkey[g] = 0

\* the inner function of a key failed for one caller, who has returned the error
\* and released the key; another caller, on the same key, found no entry and is
\* executing the function a second time
C23_Witness ==
    \E k \in Keys : \E g1, g2 \in Callers :
        /\ g1 # g2
        /\ ReturnsError(g1) /\ gret[g1].key = k /\ pc[g1] = "idle"
        /\ pc[g2] = "C_f" /\ gkey[g2] = k
        /\ execCount[k] = 2
        /\ \E c \in Runs(k) : comp[c].state = "failed"

\* ---- Cache: termination (SpecNested)
\* frame f cannot take a step until a frame of S does: it waits in m.mu.Lock()
\* for a key mutex a frame of S holds, for the table mutex a frame of S holds, or
\* for its nested Cache call, a frame of S, to return
WaitsOn(f, S) ==
    \/ pc[f] = "L_lock" /\ lkmu[gm[f]] \in S
    \/ pc[f] \in {"L_mu", "U_mu"} /\ lmu \in S
    \/ pc[f] = "C_inner" /\ Inner(f) \in S
\* a deadlock on the keyed lock table: a set of Cache calls each of which waits
\* on another of the set
LockDeadlock ==
    \E S \in SUBSET (DOMAIN pc) : S # {} /\ \A f \in S : WaitsOn(f, S)

\* C24: no reachable state is a deadlock on the keyed lock table, so that every
\* call Cache(ctx, k, g) inside a re-run can return and release its key lock,
\* also when g itself calls Cache(childCtx, k', g') with k' different from or
\* equal to k and when concurrent callers nest keys in different orders.
C24_NoLockDeadlock == ~LockDeadlock

\* C24, calls that do not nest: without a Cache call inside an inner function no
\* set of Cache calls wait on each other (SpecCache).
C24_FlatCallsNeverDeadlock == (\A g \in DOMAIN pc : pc[g] # "C_inner") => ~LockDeadlock

\* the inner function of a call on key k calls Cache with k again and waits for
\* the key mutex its own caller holds
SameKeyNesting ==
    \E g \in DOMAIN pc :
        /\ pc[g] = "C_inner" /\ pc[Inner(g)] = "L_lock"
        /\ gkey[Inner(g)] = gkey[g]
\* two calls on different keys, each of whose inner functions waits for the
\* other's key
OppositeOrder ==
    \E g, h \in DOMAIN pc :
        /\ g # h /\ gkey[g] # gkey[h]
        /\ pc[g] = "C_inner" /\ pc[Inner(g)] = "L_lock" /\ gkey[Inner(g)] = gkey[h]
        /\ pc[h] = "C_inner" /\ pc[Inner(h)] = "L_lock" /\ gkey[Inner(h)] = gkey[g]

\* C24, what the deadlocks are: every deadlock on the keyed lock table is a nested
\* call on the caller's own key or two callers nesting two keys in opposite
\* orders.
C24_DeadlocksAreNestingCycles == LockDeadlock => (SameKeyNesting \/ OppositeOrder)

====
